---- MODULE Spec2Model ----
(***************************************************************************)
(* Routify (innovation-nest-space): the six-step project workflow of the   *)
(* web client (StepAOI, StepParameters, StepPoints, StepRoute,             *)
(* StepAnalytics, Project page) against the hosted database of the         *)
(* migration (tables, UNIQUE constraints, row-level-security policies).    *)
(*                                                                         *)
(* Project P of user A is open in the browser sessions of Sessions, and    *)
(* project Q of user B in the sessions of Others.                          *)
(* Every supabase call is one atomic database step; the client code that   *)
(* runs between two awaits belongs to the step that follows the await.     *)
(* Weights are in tenths (8 = 0.8); lengths are in thousandths of a km.    *)
(***************************************************************************)
EXTENDS Integers, Sequences, FiniteSets, TLC

\* ------------------------------------------------------------------ bounds

\* The map is a grid of cells 0..GridMax x 0..GridMax (lon/lat, EPSG:4326).
GridMax == 2

\* Edits of the parameter table (handleWeightChange, handleEnabledChange).
MaxEdits == 2

\* Browser sessions that hold the page of project P open at the same time.
Sessions == {"s1", "s2"}

\* The browser sessions of the other user, on the other project.
Others == {"s3"}

\* A further browser tab of the first user, on their second project.
Tabs == {"s4"}

Clients == Sessions \cup Others \cup Tabs

\* The projects rows: id and user_id (the owner).
Projects == {"P", "Q", "R"}

user_id(p) == IF p = "Q" THEN "B" ELSE "A"

\* useParams().id of the project page of a session, and the user it signed
\* in as.
projectId(s) ==
    IF s \in Sessions THEN "P" ELSE IF s \in Others THEN "Q" ELSE "R"

UserOf(s) == user_id(projectId(s))

\* The rows a select of route_points can return: without a UNIQUE constraint
\* each session can add a row of each type.
MaxRows == 2 * Cardinality(Sessions)

None == "none"

\* --------------------------------------------------------------- geometry

Cells == (0..GridMax) \X (0..GridMax)

\* ol/proj fromLonLat: EPSG:4326 -> EPSG:3857 (metres); one cell is MercScale m.
MercScale == 1000

fromLonLat(c) == <<c[1] * MercScale, c[2] * MercScale>>

\* ol/proj toLonLat: EPSG:3857 -> EPSG:4326.
toLonLat(m) == <<m[1] \div MercScale, m[2] \div MercScale>>

\* AOI polygons the user can draw, each given by the cells whose centre it
\* contains: a non-convex L along the west and south edges of the map, and
\* the strip along the west edge.
LShapeAOI == {c \in Cells : c[1] = 0 \/ c[2] = 0}

WestAOI == {c \in Cells : c[1] = 0}

AoiChoices == {LShapeAOI, WestAOI}

\* Places the user can click for a point: the north-west and the south-east
\* corner of the map (both in the L, the second outside the strip).
PointChoices == {<<0, GridMax>>, <<GridMax, 0>>}

\* Math.sqrt, rounded down to an integer (binary search on lo..hi).
RECURSIVE SqrtSearch(_, _, _)
SqrtSearch(n, lo, hi) ==
    IF lo >= hi THEN lo
    ELSE LET mid == (lo + hi + 1) \div 2
         IN  IF mid * mid <= n THEN SqrtSearch(n, mid, hi)
             ELSE SqrtSearch(n, lo, mid - 1)

\* (46340 is the largest root of a 32-bit integer)
Sqrt(n) == SqrtSearch(n, 0, IF n < 46340 THEN n ELSE 46340)

\* The cells a straight segment from cell a to cell b passes through (the
\* cells whose centre lies on the segment).
SegmentCells(a, b) ==
    {c \in Cells :
        /\ (b[1] - a[1]) * (c[2] - a[2]) = (b[2] - a[2]) * (c[1] - a[1])
        /\ (c[1] - a[1]) * (c[1] - b[1]) <= 0
        /\ (c[2] - a[2]) * (c[2] - b[2]) <= 0}

\* --------------------------------------------------------------- database

\* The commands the row-level-security policies of each table grant to the
\* owner of the project.
ProjectPolicies == {"SELECT", "INSERT", "UPDATE", "DELETE"}

AoiPolicies == {"SELECT", "INSERT", "UPDATE"}

ParamPolicies == {"SELECT", "INSERT", "UPDATE"}

PointPolicies == {"SELECT", "INSERT", "DELETE"}

RoutePolicies == {"SELECT", "INSERT"}

\* (mutant: the policies admit every user)
OwnsProjectAnyone(u, p) == TRUE

\* The condition of every policy (USING, and WITH CHECK, which for UPDATE is
\* the USING condition): projects.user_id = auth.uid() for the project of the
\* row. Without a session auth.uid() is null and owns nothing.
OwnsProject(u, p) == p \in Projects /\ user_id(p) = u

\* A row is open to a command of user u when the table has a policy for the
\* command and its condition holds.
Allowed(u, command, policies, p) == command \in policies /\ OwnsProject(u, p)

\* (mutant: aoi_polygons.project_id declared without UNIQUE)
AoiUniqueDropped == FALSE

\* (mutant: routes.project_id declared without UNIQUE)
RouteUniqueDropped == FALSE

\* project_id ... NOT NULL UNIQUE: at most one row per project.
AoiUnique == TRUE

ParamUnique == TRUE

RouteUnique == TRUE

\* route_points declares no UNIQUE constraint on (project_id, point_type).
PointUnique == FALSE

\* (mutant: the select without .eq("project_id", projectId))
DbSelectAnyProject(u, table, p, policies) ==
    SelectSeq(table, LAMBDA r : Allowed(u, "SELECT", policies, r.project_id))

\* The tables hold rows [project_id, ...] in insertion order.
\* SELECT ... .eq("project_id", p) issued as user u.
DbSelect(u, table, p, policies) ==
    SelectSeq(table, LAMBDA r :
        r.project_id = p /\ Allowed(u, "SELECT", policies, r.project_id))

\* INSERT as user u: refused (an error) when the policy does not admit the
\* row or when a UNIQUE constraint on project_id finds a row of the project;
\* fail is a transient failure.
DbInsert(u, table, row, policies, unique, fail) ==
    IF \/ fail
       \/ ~Allowed(u, "INSERT", policies, row.project_id)
       \/ unique /\ \E i \in 1..Len(table) : table[i].project_id = row.project_id
    THEN [error |-> TRUE, table |-> table]
    ELSE [error |-> FALSE, table |-> Append(table, row)]

\* UPDATE ... .eq("project_id", p) as user u: every row of the project that
\* is open to the command takes the new value; a row no UPDATE policy opens
\* is not visible to the command, which then changes nothing and reports no
\* error. A new value the policy does not admit is an error.
DbUpdate(u, table, p, row, policies, fail) ==
    LET hit(r) == r.project_id = p /\ Allowed(u, "UPDATE", policies, r.project_id)
    IN  IF fail THEN [error |-> TRUE, table |-> table]
        ELSE IF \A i \in 1..Len(table) : ~hit(table[i])
        THEN [error |-> FALSE, table |-> table]
        ELSE IF ~Allowed(u, "UPDATE", policies, row.project_id)
        THEN [error |-> TRUE, table |-> table]
        ELSE [error |-> FALSE,
              table |-> [i \in 1..Len(table) |->
                            IF hit(table[i]) THEN row ELSE table[i]]]

\* DELETE ... .eq("project_id", p).eq("point_type", t) as user u: the rows of
\* that type that are open to the command go.
DbDelete(u, table, p, pointType, policies) ==
    SelectSeq(table, LAMBDA r :
        ~(/\ r.project_id = p
          /\ Allowed(u, "DELETE", policies, r.project_id)
          /\ r.point_type = pointType))

\* .single(): data is the row when the query yields exactly one row, and
\* null (here: no row) otherwise.
Single(table) == IF Len(table) = 1 THEN table ELSE << >>

\* ------------------------------------------------------------- parameters

\* A JavaScript number is [kind |-> "number", tenths |-> n] or NaN; a JSON
\* value is a number or null.
Num(n) == [kind |-> "number", tenths |-> n]

NaN == [kind |-> "NaN", tenths |-> 0]

JsonNull == [kind |-> "null", tenths |-> 0]

\* defaultParameters.
Row(l, sc, g, c, b) ==
    [layer |-> l, subcategory |-> sc, generalWeight |-> Num(g),
     corridorWeight |-> Num(c), barrierWeight |-> Num(b), enabled |-> TRUE]

defaultParameters ==
    << Row("Land Cover", "Developed", 8, 0, 0),
       Row("Land Cover", "Forest", 3, 0, 0),
       Row("Land Cover", "Cropland", 5, 0, 0),
       Row("Land Cover", "Wetlands", 9, 0, 0),
       Row("Transmission Lines", "< 100kV", 0, 2, 0),
       Row("Transmission Lines", "100-230kV", 0, 3, 0),
       Row("Transmission Lines", "> 230kV", 0, 4, 0),
       Row("Railroads", "Low Speed", 0, 3, 4),
       Row("Railroads", "Medium Speed", 0, 4, 6),
       Row("Railroads", "High Speed", 0, 5, 8) >>

WeightFields == {"generalWeight", "corridorWeight", "barrierWeight"}

\* What the user can type into a weight input (min, max and step of an
\* <input type="number"> do not restrict typed text), and parseFloat of it.
InputTexts == {"0.5", "1", "5", "-1", ""}

parseFloat(text) ==
    CASE text = "0.5" -> Num(5)
      [] text = "1" -> Num(10)
      [] text = "5" -> Num(50)
      [] text = "-1" -> Num(-10)
      [] OTHER -> NaN

\* (mutant: every cell of the table holds an input)
HasInputEveryCell(row, field) == TRUE

\* The table cell of a row holds an input for a field only for these layers.
HasInput(row, field) ==
    CASE field = "generalWeight" -> row.layer = "Land Cover"
      [] field = "corridorWeight" -> row.layer # "Land Cover"
      [] field = "barrierWeight" -> row.layer = "Railroads"
      [] OTHER -> FALSE

\* JSON.stringify of the table on its way to the jsonb column: NaN is
\* written as null.
JsonNumber(v) == IF v.kind = "NaN" THEN JsonNull ELSE v

ToJson(params) ==
    [i \in 1..Len(params) |->
        [params[i] EXCEPT !.generalWeight = JsonNumber(@),
                          !.corridorWeight = JsonNumber(@),
                          !.barrierWeight = JsonNumber(@)]]

\* ------------------------------------------------------------------ state

VARIABLES
    aoi_polygons,        \* table: rows [project_id, geom, geojson]
    routing_parameters,  \* table: rows [project_id, parameters]
    route_points,        \* table: rows [project_id, point_type, geom, geojson]
    routes,              \* table: rows [project_id, geom, geojson, length_km, cost]
    current_step,        \* projects.current_step, by project
    session,             \* per session: the auth session exists (signed in)
    location,            \* per session: the route the browser shows
    projects,            \* per session: Dashboard state, the projects listed
    project,             \* per session: project.current_step, 0 = not loaded
    activeStep,          \* per session: the open tab
    pc,                  \* per session: the await the running handler is at
    op,                  \* per session: the locals of the running handler
    stepUpdates,         \* per session: updateProjectStep calls in flight
    hasAOI,              \* StepAOI state
    vectorSource,        \* StepAOI: the features (polygons) on the map
    hasOrigin,           \* StepPoints state
    hasDestination,      \* StepPoints state
    mode,                \* the armed Draw interaction, or None
    routeSource,         \* StepRoute: the features (lines) of the route layer
    hasRoute,            \* StepRoute state
    parameters,          \* StepParameters state
    toast,               \* per session: the last notification
    completed,           \* history: steps whose onComplete has been called
    edits,               \* history: the number of edits of the parameter table
    generated,           \* history: the inputs and the stored route of the last
                         \* generateRoute that ended with "Route Generated"
    downloading,         \* StepDownload state: the download type in progress
    downloaded,          \* history: per session, the file last handed to the
                         \* browser
    fetching,            \* per session: the download types whose downloadFile
                         \* awaits the answer of its select
    card,                \* per session: the ProjectCard of the session's
                         \* project on the Dashboard (its project.current_step
                         \* prop, its hasRoute state, its effect to be run)
    comparatorProjects   \* Dashboard state: the ids of the selected projects

dbVars == <<aoi_polygons, routing_parameters, route_points, routes, current_step>>

pageVars == <<project, activeStep, stepUpdates>>

aoiVars == <<hasAOI, vectorSource>>

pointVars == <<hasOrigin, hasDestination>>

routeVars == <<routeSource, hasRoute>>

authVars == <<session, location, projects>>

dashVars == <<card, comparatorProjects>>

downloadVars == <<downloading, downloaded, fetching, dashVars>>

\* No ProjectCard is mounted (current_step 0 is no value of the column).
NoCard == [current_step |-> 0, hasRoute |-> FALSE, effect |-> FALSE]

vars == <<dbVars, pageVars, pc, op, aoiVars, pointVars, mode, routeVars,
          parameters, toast, completed, edits, generated, downloadVars, authVars>>

\* The locals of a handler that is not running.
NoOp == [step |-> 0, features |-> {}, pointType |-> None,
         existing |-> FALSE, hasOrigin |-> FALSE, hasDestination |-> FALSE,
         parameters |-> << >>]

\* No file has been handed to the browser.
NoFile == [filename |-> None, text |-> None, data |-> << >>]

Init ==
    /\ aoi_polygons = << >>
    /\ routing_parameters = << >>
    /\ route_points = << >>
    /\ routes = << >>
    /\ current_step = [p \in Projects |-> 1]
    /\ session = [s \in Clients |-> TRUE]
    /\ location = [s \in Clients |-> "/project"]
    /\ projects = [s \in Clients |-> {}]
    /\ project = [s \in Clients |-> 0]
    /\ activeStep = [s \in Clients |-> 1]
    /\ pc = [s \in Clients |-> "idle"]
    /\ op = [s \in Clients |-> NoOp]
    /\ stepUpdates = [s \in Clients |-> {}]
    /\ hasAOI = [s \in Clients |-> FALSE]
    /\ vectorSource = [s \in Clients |-> {}]
    /\ hasOrigin = [s \in Clients |-> FALSE]
    /\ hasDestination = [s \in Clients |-> FALSE]
    /\ mode = [s \in Clients |-> None]
    /\ routeSource = [s \in Clients |-> {}]
    /\ hasRoute = [s \in Clients |-> FALSE]
    /\ parameters = [s \in Clients |-> defaultParameters]
    /\ toast = [s \in Clients |-> None]
    /\ completed = {}
    /\ edits = 0
    /\ generated = << >>
    /\ downloading = [s \in Clients |-> None]
    /\ downloaded = [s \in Clients |-> NoFile]
    /\ fetching = [s \in Clients |-> {}]
    /\ card = [s \in Clients |-> NoCard]
    /\ comparatorProjects = [s \in Clients |-> << >>]

\* ---------------------------------------------------------------- Project

\* format.readFeatures(geojson, {featureProjection: "EPSG:3857"}) and
\* format.writeFeatures(..., {dataProjection: "EPSG:4326"}) of a polygon.
readPolygon(geojson) == {fromLonLat(c) : c \in geojson}

writePolygon(feature) == {toLonLat(m) : m \in feature}

\* handleStepComplete(completedStep), called from a render in which
\* project.current_step was cs: the updateProjectStep calls then in flight.
handleStepComplete(pending, completedStep, cs) ==
    LET nextStep == completedStep + 1
    IN  IF nextStep <= 6 /\ cs # 0 /\ nextStep > cs
        THEN pending \cup {nextStep}
        ELSE pending

\* auth.uid() of the requests of a session: the user it signed in as, or
\* nobody once the auth session is gone.
auth_uid(s) == IF session[s] THEN UserOf(s) ELSE "anon"

\* The select of the rows of the session's project, as the step components
\* issue it.
Sel(s, table, policies) == DbSelect(auth_uid(s), table, projectId(s), policies)

\* The tab k is shown to session s whose project.current_step is then cs and
\* whose updateProjectStep calls in flight are pending. When the tab changes
\* the step component of k is mounted: its state starts from the defaults and
\* its load effect reads the tables (loadExistingAOI, loadParameters,
\* loadAOIAndPoints, loadData); StepAnalytics calls onComplete from its mount
\* effect.
Show(s, k, cs, pending, remount) ==
    /\ activeStep' = [activeStep EXCEPT ![s] = k]
    /\ IF ~remount
       THEN /\ UNCHANGED <<aoiVars, pointVars, mode, routeVars, parameters,
                           op, completed>>
            /\ stepUpdates' = [stepUpdates EXCEPT ![s] = pending]
       ELSE LET aoi == Single(Sel(s, aoi_polygons, AoiPolicies))
                params == Single(Sel(s, routing_parameters, ParamPolicies))
                points == Sel(s, route_points, PointPolicies)
                route == Single(Sel(s, routes, RoutePolicies))
            IN  /\ op' = [op EXCEPT ![s] = NoOp]
                /\ mode' = [mode EXCEPT ![s] = None]
                /\ hasAOI' = [hasAOI EXCEPT ![s] = k = 1 /\ aoi # << >>]
                /\ vectorSource' = [vectorSource EXCEPT ![s] =
                     IF k = 1 /\ aoi # << >>
                     THEN {readPolygon(aoi[1].geojson)} ELSE {}]
                /\ parameters' = [parameters EXCEPT ![s] =
                     IF k = 2 /\ params # << >>
                     THEN params[1].parameters ELSE defaultParameters]
                /\ hasOrigin' = [hasOrigin EXCEPT ![s] =
                     k = 3 /\ \E i \in 1..Len(points) :
                                  points[i].point_type = "origin"]
                /\ hasDestination' = [hasDestination EXCEPT ![s] =
                     k = 3 /\ \E i \in 1..Len(points) :
                                  points[i].point_type = "destination"]
                /\ hasRoute' = [hasRoute EXCEPT ![s] = k = 4 /\ route # << >>]
                /\ routeSource' = [routeSource EXCEPT ![s] =
                     IF k = 4 /\ route # << >>
                     THEN {<<fromLonLat(route[1].geojson[1]),
                             fromLonLat(route[1].geojson[2])>>}
                     ELSE {}]
                /\ stepUpdates' = [stepUpdates EXCEPT ![s] =
                     IF k = 5 THEN handleStepComplete(pending, 5, cs)
                     ELSE pending]
                /\ completed' = IF k = 5 THEN completed \cup {5} ELSE completed

\* The user acts on the project page of session s when it shows the project,
\* no handler of the session is running and no updateProjectStep is in
\* flight.
Ready(s) ==
    /\ location[s] = "/project"
    /\ project[s] # 0 /\ pc[s] = "idle" /\ stepUpdates[s] = {}

\* loadProject: the page is opened (or reloaded). Without an auth session it
\* navigates to /auth; when the select of the project yields no row it
\* navigates to /dashboard; otherwise it shows the stored step.
loadProject(s) ==
    /\ location[s] = "/project"
    /\ pc[s] = "idle"
    /\ stepUpdates[s] = {}
    /\ UNCHANGED <<dbVars, pc, edits, generated, downloadVars, session, projects>>
    /\ LET found == Allowed(auth_uid(s), "SELECT", ProjectPolicies, projectId(s))
           step == current_step[projectId(s)]
       IN  IF ~session[s] \/ ~found
           THEN /\ location' = [location EXCEPT ![s] =
                     IF ~session[s] THEN "/auth" ELSE "/dashboard"]
                /\ toast' = [toast EXCEPT ![s] =
                     IF ~session[s] THEN None ELSE "Error"]
                /\ project' = [project EXCEPT ![s] = 0]
                /\ UNCHANGED <<activeStep, stepUpdates, aoiVars, pointVars,
                               mode, routeVars, parameters, op, completed>>
           ELSE /\ project' = [project EXCEPT ![s] = step]
                /\ Show(s, step, step, {}, TRUE)
                /\ toast' = [toast EXCEPT ![s] = None]
                /\ UNCHANGED location

\* steps[k].disabled of a render in which project.current_step is cs.
disabled(k, cs) == k # 1 /\ cs < k

\* A click on the tab trigger k, unless it is disabled.
selectTab(s, k) ==
    /\ Ready(s)
    /\ ~disabled(k, project[s])
    /\ k # activeStep[s]
    /\ Show(s, k, project[s], stepUpdates[s], TRUE)
    /\ UNCHANGED <<dbVars, project, pc, edits, generated, downloadVars, authVars>>
    /\ toast' = [toast EXCEPT ![s] = None]

\* updateProjectStep(step): the update of projects.current_step arrives. An
\* update that no policy opens the row to changes nothing and reports no
\* error.
updateProjectStep(s, step, fail) ==
    /\ step \in stepUpdates[s]
    /\ UNCHANGED <<edits, generated, downloadVars, authVars>>
    /\ IF fail
       THEN /\ toast' = [toast EXCEPT ![s] = "Error"]
            /\ stepUpdates' = [stepUpdates EXCEPT ![s] = @ \ {step}]
            /\ UNCHANGED <<dbVars, project, activeStep, pc, op, aoiVars,
                           pointVars, mode, routeVars, parameters, completed>>
       ELSE /\ current_step' =
                 IF Allowed(auth_uid(s), "UPDATE", ProjectPolicies, projectId(s))
                 THEN [current_step EXCEPT ![projectId(s)] = step]
                 ELSE current_step
            /\ project' = [project EXCEPT ![s] = step]
            /\ Show(s, step, step, stepUpdates[s] \ {step}, activeStep[s] # step)
            /\ UNCHANGED <<aoi_polygons, routing_parameters, route_points,
                           routes, pc, toast>>

\* ---------------------------------------------------------------- StepAOI

\* StepAOI.enableDrawing followed by the drawend of the polygon a.
drawAOI(s, a) ==
    /\ Ready(s) /\ activeStep[s] = 1
    /\ vectorSource' = [vectorSource EXCEPT ![s] = {readPolygon(a)}]
    /\ hasAOI' = [hasAOI EXCEPT ![s] = TRUE]
    /\ UNCHANGED <<dbVars, pageVars, pc, op, pointVars, mode, routeVars,
                   parameters, completed, edits, generated, downloadVars, authVars>>
    /\ toast' = [toast EXCEPT ![s] = None]

\* StepAOI.handleSave up to the answer of "Check if AOI exists".
aoiHandleSave(s) ==
    /\ Ready(s) /\ activeStep[s] = 1
    /\ hasAOI[s]
    /\ IF vectorSource[s] = {}
       THEN /\ toast' = [toast EXCEPT ![s] = "Error"]
            /\ UNCHANGED <<pc, op>>
       ELSE /\ pc' = [pc EXCEPT ![s] = "aoi_write"]
            /\ op' = [op EXCEPT ![s] =
                 [NoOp EXCEPT !.step = project[s],
                              !.features = {writePolygon(f) : f \in vectorSource[s]},
                              !.existing =
                                  Single(Sel(s, aoi_polygons, AoiPolicies)) # << >>]]
            /\ toast' = [toast EXCEPT ![s] = None]
    /\ UNCHANGED <<dbVars, pageVars, aoiVars, pointVars, mode, routeVars,
                   parameters, completed, edits, generated, downloadVars, authVars>>

\* StepAOI.handleSave from the update or insert to the end.
aoiWrite(s, fail) ==
    /\ pc[s] = "aoi_write"
    /\ LET geometry == CHOOSE g \in op[s].features : TRUE
           row == [project_id |-> projectId(s), geom |-> geometry,
                   geojson |-> geometry]
           r == IF op[s].existing
                THEN DbUpdate(auth_uid(s), aoi_polygons, projectId(s), row,
                              AoiPolicies, fail)
                ELSE DbInsert(auth_uid(s), aoi_polygons, row, AoiPolicies,
                              AoiUnique, fail)
       IN  /\ aoi_polygons' = r.table
           /\ IF r.error
              THEN /\ toast' = [toast EXCEPT ![s] = "Error"]
                   /\ UNCHANGED <<stepUpdates, completed>>
              ELSE /\ toast' = [toast EXCEPT ![s] = "AOI Saved"]
                   /\ stepUpdates' = [stepUpdates EXCEPT ![s] =
                        handleStepComplete(@, 1, op[s].step)]
                   /\ completed' = completed \cup {1}
    /\ pc' = [pc EXCEPT ![s] = "idle"]
    /\ op' = [op EXCEPT ![s] = NoOp]
    /\ UNCHANGED <<routing_parameters, route_points, routes, current_step,
                   project, activeStep, aoiVars, pointVars, mode, routeVars,
                   parameters, edits, generated, downloadVars, authVars>>

\* --------------------------------------------------------- StepParameters

\* handleWeightChange(index, field, parseFloat(e.target.value)) from the
\* onChange of the input of that cell.
\* (mutant: the field is set in every row of the copy)
newParametersEveryRow(rows, index, field, value) ==
    [i \in 1..Len(rows) |-> [rows[i] EXCEPT ![field] = value]]

\* const newParameters = [...parameters];
\* newParameters[index] = { ...newParameters[index], [field]: value }.
newParameters(rows, index, field, value) ==
    [rows EXCEPT ![index][field] = value]

handleWeightChange(s, index, field, text) ==
    /\ Ready(s) /\ activeStep[s] = 2
    /\ edits < MaxEdits
    /\ HasInput(parameters[s][index], field)
    /\ parameters' = [parameters EXCEPT ![s] =
         newParameters(@, index, field, parseFloat(text))]
    /\ edits' = edits + 1
    /\ generated' = generated
    /\ UNCHANGED downloadVars
    /\ UNCHANGED <<dbVars, pageVars, pc, op, aoiVars, pointVars, mode,
                   routeVars, completed, authVars>>
    /\ toast' = [toast EXCEPT ![s] = None]

\* handleEnabledChange(index, checked) from the checkbox of the row.
handleEnabledChange(s, index, enabled) ==
    /\ Ready(s) /\ activeStep[s] = 2
    /\ edits < MaxEdits
    /\ parameters' = [parameters EXCEPT ![s] =
         newParameters(@, index, "enabled", enabled)]
    /\ edits' = edits + 1
    /\ generated' = generated
    /\ UNCHANGED downloadVars
    /\ UNCHANGED <<dbVars, pageVars, pc, op, aoiVars, pointVars, mode,
                   routeVars, completed, authVars>>
    /\ toast' = [toast EXCEPT ![s] = None]

\* StepParameters.handleSave up to the answer of the select of the row.
paramHandleSave(s) ==
    /\ Ready(s) /\ activeStep[s] = 2
    /\ pc' = [pc EXCEPT ![s] = "param_write"]
    /\ op' = [op EXCEPT ![s] =
         [NoOp EXCEPT !.step = project[s],
                      !.parameters = parameters[s],
                      !.existing =
                          Single(Sel(s, routing_parameters, ParamPolicies)) # << >>]]
    /\ toast' = [toast EXCEPT ![s] = None]
    /\ UNCHANGED <<dbVars, pageVars, aoiVars, pointVars, mode, routeVars,
                   parameters, completed, edits, generated, downloadVars, authVars>>

\* StepParameters.handleSave from the update or insert to the end.
paramWrite(s, fail) ==
    /\ pc[s] = "param_write"
    /\ LET row == [project_id |-> projectId(s),
                   parameters |-> ToJson(op[s].parameters)]
           r == IF op[s].existing
                THEN DbUpdate(auth_uid(s), routing_parameters, projectId(s),
                              row, ParamPolicies, fail)
                ELSE DbInsert(auth_uid(s), routing_parameters, row,
                              ParamPolicies, ParamUnique, fail)
       IN  /\ routing_parameters' = r.table
           /\ IF r.error
              THEN /\ toast' = [toast EXCEPT ![s] = "Error"]
                   /\ UNCHANGED <<stepUpdates, completed>>
              ELSE /\ toast' = [toast EXCEPT ![s] = "Parameters Saved"]
                   /\ stepUpdates' = [stepUpdates EXCEPT ![s] =
                        handleStepComplete(@, 2, op[s].step)]
                   /\ completed' = completed \cup {2}
    /\ pc' = [pc EXCEPT ![s] = "idle"]
    /\ op' = [op EXCEPT ![s] = NoOp]
    /\ UNCHANGED <<aoi_polygons, route_points, routes, current_step, project,
                   activeStep, aoiVars, pointVars, mode, routeVars,
                   parameters, edits, generated, downloadVars, authVars>>

\* ------------------------------------------------------------- StepPoints

\* StepPoints.enableDrawing(pointType): the Draw interaction is armed; its
\* drawend handler keeps the savePoint of this render.
enableDrawing(s, pointType) ==
    /\ Ready(s) /\ activeStep[s] = 3
    /\ mode[s] = None
    /\ mode' = [mode EXCEPT ![s] = pointType]
    /\ op' = [op EXCEPT ![s] =
         [NoOp EXCEPT !.step = project[s],
                      !.pointType = pointType,
                      !.hasOrigin = hasOrigin[s],
                      !.hasDestination = hasDestination[s]]]
    /\ UNCHANGED <<dbVars, pageVars, pc, aoiVars, pointVars, routeVars,
                   parameters, completed, edits, generated, downloadVars, authVars>>
    /\ toast' = [toast EXCEPT ![s] = None]

\* The drawend of a point placed at cell c, and savePoint up to the end of
\* "Delete existing point of this type" (the code ignores its outcome; a
\* transient failure of the delete is left out).
drawend(s, c) ==
    /\ Ready(s) /\ mode[s] # None
    /\ mode' = [mode EXCEPT ![s] = None]
    /\ pc' = [pc EXCEPT ![s] = "point_insert"]
    /\ op' = [op EXCEPT ![s].features = {toLonLat(fromLonLat(c))}]
    /\ route_points' = DbDelete(auth_uid(s), route_points, projectId(s),
                                mode[s], PointPolicies)
    /\ toast' = [toast EXCEPT ![s] = None]
    /\ UNCHANGED <<aoi_polygons, routing_parameters, routes, current_step,
                   pageVars, aoiVars, pointVars, routeVars, parameters,
                   completed, edits, generated, downloadVars, authVars>>

\* savePoint from "Insert new point" to the end.
pointInsert(s, fail) ==
    /\ pc[s] = "point_insert"
    /\ LET pointType == op[s].pointType
           coordinates == CHOOSE g \in op[s].features : TRUE
           row == [project_id |-> projectId(s), point_type |-> pointType,
                   geom |-> coordinates, geojson |-> coordinates]
           r == DbInsert(auth_uid(s), route_points, row, PointPolicies,
                         PointUnique, fail)
       IN  /\ route_points' = r.table
           /\ IF r.error
              THEN /\ toast' = [toast EXCEPT ![s] = "Error"]
                   /\ UNCHANGED <<stepUpdates, completed, pointVars>>
              ELSE /\ hasOrigin' = [hasOrigin EXCEPT ![s] =
                        @ \/ pointType = "origin"]
                   /\ hasDestination' = [hasDestination EXCEPT ![s] =
                        @ \/ pointType = "destination"]
                   /\ toast' = [toast EXCEPT ![s] = "Point Added"]
                   /\ IF \/ op[s].hasOrigin /\ op[s].hasDestination
                         \/ pointType = "origin" /\ op[s].hasDestination
                         \/ pointType = "destination" /\ op[s].hasOrigin
                      THEN /\ stepUpdates' = [stepUpdates EXCEPT ![s] =
                                handleStepComplete(@, 3, op[s].step)]
                           /\ completed' = completed \cup {3}
                      ELSE UNCHANGED <<stepUpdates, completed>>
    /\ pc' = [pc EXCEPT ![s] = "idle"]
    /\ op' = [op EXCEPT ![s] = NoOp]
    /\ UNCHANGED <<aoi_polygons, routing_parameters, routes, current_step,
                   project, activeStep, aoiVars, mode, routeVars, parameters,
                   edits, generated, downloadVars, authVars>>

\* -------------------------------------------------------------- StepRoute

\* (mutant: the Error is thrown without its message)
PointsRequiredGeneric == "Error"

\* The notification of the Error generateRoute throws itself: the title
\* "Error" with this description. (The other "Error" notifications carry the
\* message of the error object of the database request.)
PointsRequired == "Error: Both origin and destination points are required"

\* "Calculate mock length": the distance of the two EPSG:3857 coordinates
\* over 1000 (here in thousandths of a km), and the mock cost, length * 1000.
routeLength(originCoords, destCoords) ==
    Sqrt((destCoords[1] - originCoords[1]) * (destCoords[1] - originCoords[1])
         + (destCoords[2] - originCoords[2]) * (destCoords[2] - originCoords[2]))

routeCost(length) == length * 1000

\* The routes row generateRoute builds from the two route_points rows it
\* found: a straight line from the origin to the destination.
routeRow(p, origin, destination) ==
    LET originCoords == fromLonLat(origin.geojson)
        destCoords == fromLonLat(destination.geojson)
        coordinates == <<toLonLat(originCoords), toLonLat(destCoords)>>
        length == routeLength(originCoords, destCoords)
    IN  [project_id |-> p, geom |-> coordinates, geojson |-> coordinates,
         length_km |-> length, cost |-> routeCost(length)]

\* generateRoute from the click to the drawing of the line on the map: the
\* select of the points, points.find for each type (i and j are the rows a
\* find can return: the select states no order), the new route feature.
\* The error of the answer is not looked at: a select that failed (fail)
\* leaves points null, which throws the same Error as too few points.
generateRoute(s, i, j, fail) ==
    /\ Ready(s) /\ activeStep[s] = 4
    /\ LET points == IF fail THEN << >>
                     ELSE Sel(s, route_points, PointPolicies)
           found == /\ Len(points) >= 2
                    /\ i \in 1..Len(points) /\ points[i].point_type = "origin"
                    /\ j \in 1..Len(points) /\ points[j].point_type = "destination"
           missing == \/ Len(points) < 2
                      \/ \A n \in 1..Len(points) : points[n].point_type # "origin"
                      \/ \A n \in 1..Len(points) : points[n].point_type # "destination"
       IN  \/ /\ missing
              /\ i = 1 /\ j = 1
              /\ toast' = [toast EXCEPT ![s] = PointsRequired]
              /\ UNCHANGED <<pc, op, routeSource>>
           \/ /\ found
              /\ pc' = [pc EXCEPT ![s] = "route_select"]
              /\ op' = [op EXCEPT ![s] =
                   [NoOp EXCEPT !.step = project[s],
                                !.features =
                                    {routeRow(projectId(s), points[i], points[j])}]]
              /\ routeSource' = [routeSource EXCEPT ![s] =
                   {<<fromLonLat(points[i].geojson),
                      fromLonLat(points[j].geojson)>>}]
              /\ toast' = [toast EXCEPT ![s] = None]
    /\ UNCHANGED <<dbVars, pageVars, aoiVars, pointVars, mode, hasRoute,
                   parameters, completed, edits, generated, downloadVars, authVars>>

\* generateRoute: the answer of "Check if route exists".
routeSelect(s) ==
    /\ pc[s] = "route_select"
    /\ pc' = [pc EXCEPT ![s] = "route_write"]
    /\ op' = [op EXCEPT ![s].existing =
                             Single(Sel(s, routes, RoutePolicies)) # << >>]
    /\ UNCHANGED <<dbVars, pageVars, aoiVars, pointVars, mode, routeVars,
                   parameters, toast, completed, edits, generated, downloadVars, authVars>>

\* The stored inputs of a route generation: the AOI, the weights and the
\* origin and destination points of the project.
RouteInputs == <<aoi_polygons, routing_parameters, route_points>>

\* generateRoute from the update or insert to the end.
routeWrite(s, fail) ==
    /\ pc[s] = "route_write"
    /\ LET row == CHOOSE g \in op[s].features : TRUE
           r == IF op[s].existing
                THEN DbUpdate(auth_uid(s), routes, projectId(s), row,
                              RoutePolicies, fail)
                ELSE DbInsert(auth_uid(s), routes, row, RoutePolicies,
                              RouteUnique, fail)
       IN  /\ routes' = r.table
           /\ IF r.error
              THEN /\ toast' = [toast EXCEPT ![s] = "Error"]
                   /\ UNCHANGED <<stepUpdates, completed, hasRoute, generated>>
              ELSE /\ hasRoute' = [hasRoute EXCEPT ![s] = TRUE]
                   /\ toast' = [toast EXCEPT ![s] = "Route Generated"]
                   /\ stepUpdates' = [stepUpdates EXCEPT ![s] =
                        handleStepComplete(@, 4, op[s].step)]
                   /\ completed' = completed \cup {4}
                   /\ generated' = <<RouteInputs, r.table>>
    /\ pc' = [pc EXCEPT ![s] = "idle"]
    /\ op' = [op EXCEPT ![s] = NoOp]
    /\ UNCHANGED <<aoi_polygons, routing_parameters, route_points,
                   current_step, project, activeStep, aoiVars, pointVars,
                   mode, routeSource, parameters, edits, authVars,
                   downloadVars>>

\* ----------------------------------------------------------- StepDownload

DownloadTypes == {"aoi-geojson", "route-geojson", "route-kml", "report-csv"}

\* value || "N/A" in the template of the report: 0, null and undefined give
\* "N/A".
OrNA(row, field) ==
    IF row = << >> \/ row[1][field] = 0
    THEN [na |-> TRUE, value |-> 0]
    ELSE [na |-> FALSE, value |-> row[1][field]]

\* The file downloadFile builds for a type from data, the answer of
\* .single() (no row: data is null). JSON.stringify(undefined, null, 2) is
\* undefined, and the Blob made of it holds the text "undefined".
FileOf(type, data, p) ==
    CASE type = "aoi-geojson" ->
           IF data = << >>
           THEN [filename |-> "aoi_polygon.geojson", text |-> "undefined",
                 data |-> << >>]
           ELSE [filename |-> "aoi_polygon.geojson", text |-> "json",
                 data |-> <<data[1].geojson>>]
      [] type = "route-geojson" ->
           IF data = << >>
           THEN [filename |-> "route.geojson", text |-> "undefined",
                 data |-> << >>]
           ELSE [filename |-> "route.geojson", text |-> "json",
                 data |-> <<data[1].geojson>>]
      [] type = "route-kml" ->
           [filename |-> "route.kml", text |-> "kml",
            data |-> IF data = << >> THEN << >> ELSE data[1].geojson]
      [] type = "report-csv" ->
           [filename |-> "route_report.csv", text |-> "csv",
            data |-> <<OrNA(data, "length_km"), OrNA(data, "cost"), p>>]

\* The Download button of a type: disabled={downloading === option.id}.
buttonDisabled(s, type) == downloading[s] = type

\* downloadFile(type) from the click to the select: setDownloading(type).
\* The buttons of the other types stay enabled while a download runs, so
\* downloads of different types overlap (one download of a type at a time
\* is followed here).
downloadFile(s, type) ==
    /\ location[s] = "/project" /\ project[s] # 0 /\ stepUpdates[s] = {}
    /\ pc[s] \in {"idle", "download"}
    /\ activeStep[s] = 6
    /\ ~buttonDisabled(s, type)
    /\ type \notin fetching[s]
    /\ downloading' = [downloading EXCEPT ![s] = type]
    /\ fetching' = [fetching EXCEPT ![s] = @ \cup {type}]
    /\ pc' = [pc EXCEPT ![s] = "download"]
    /\ toast' = [toast EXCEPT ![s] = None]
    /\ UNCHANGED <<dbVars, pageVars, op, aoiVars, pointVars, mode, routeVars,
                   parameters, completed, edits, generated, authVars,
                   downloaded, dashVars>>

\* (mutant: the handler ends without its finally block)
downloadingKept(s) == downloading

\* finally { setDownloading(null) }.
setDownloadingNull(s) == [downloading EXCEPT ![s] = None]

\* downloadFile(type) from the answer of the select to the end: the error of
\* the answer is not looked at, so a failed fetch is a null data like a
\* missing row; the file is built, handed to the browser and announced, and
\* finally setDownloading(null).
downloadAnswer(s, type, fail) ==
    /\ pc[s] = "download"
    /\ type \in fetching[s]
    /\ LET table == IF type = "aoi-geojson" THEN aoi_polygons ELSE routes
           policies == IF type = "aoi-geojson" THEN AoiPolicies ELSE RoutePolicies
           data == IF fail THEN << >> ELSE Single(Sel(s, table, policies))
       IN  downloaded' = [downloaded EXCEPT ![s] =
                              FileOf(type, data, projectId(s))]
    /\ toast' = [toast EXCEPT ![s] = "Download Complete"]
    /\ downloading' = setDownloadingNull(s)
    /\ fetching' = [fetching EXCEPT ![s] = @ \ {type}]
    /\ pc' = [pc EXCEPT ![s] =
                  IF fetching[s] = {type} THEN "idle" ELSE "download"]
    /\ UNCHANGED <<dbVars, pageVars, op, aoiVars, pointVars, mode, routeVars,
                   parameters, completed, edits, generated, authVars, dashVars>>

\* -------------------------------------------------------------- Dashboard

\* The auth session of the browser ends (a sign-out in another tab, or
\* handleSignOut of the Dashboard, which navigates itself). Dashboard listens
\* with onAuthStateChange and navigates to /auth; the Project page and the
\* step components have no listener.
signedOut(s) ==
    /\ session[s]
    /\ session' = [session EXCEPT ![s] = FALSE]
    /\ location' = [location EXCEPT ![s] =
         IF @ = "/dashboard" THEN "/auth" ELSE @]
    /\ card' = [card EXCEPT ![s] =
         IF location[s] = "/dashboard" THEN NoCard ELSE @]
    /\ comparatorProjects' = [comparatorProjects EXCEPT ![s] =
         IF location[s] = "/dashboard" THEN << >> ELSE @]
    /\ UNCHANGED <<dbVars, pageVars, pc, op, aoiVars, pointVars, mode,
                   routeVars, parameters, toast, completed, edits, generated,
                   downloading, downloaded, fetching, projects>>

\* The arrow button of the Project page: navigate("/dashboard"). The
\* Dashboard mounts and its effect asks getSession: without a session it
\* navigates to /auth, with one it calls loadProjects.
openDashboard(s) ==
    /\ Ready(s)
    /\ project' = [project EXCEPT ![s] = 0]
    /\ projects' = [projects EXCEPT ![s] = {}]
    /\ location' = [location EXCEPT ![s] =
         IF session[s] THEN "/dashboard" ELSE "/auth"]
    /\ pc' = [pc EXCEPT ![s] = IF session[s] THEN "load_projects" ELSE "idle"]
    /\ toast' = [toast EXCEPT ![s] = None]
    /\ card' = [card EXCEPT ![s] = NoCard]
    /\ comparatorProjects' = [comparatorProjects EXCEPT ![s] = << >>]
    /\ UNCHANGED <<dbVars, activeStep, stepUpdates, op, aoiVars, pointVars,
                   mode, routeVars, parameters, completed, edits, generated,
                   downloading, downloaded, fetching, session>>

\* ProjectCard: the map container div (mapRef.current) is in the page only
\* when the card rendered with hasRoute && project.current_step >= 4;
\* otherwise the placeholder is rendered and mapRef.current is null.
mapRefCurrent(c) == c.hasRoute /\ c.current_step >= 4

\* The Dashboard renders the card c of a project whose current_step was
\* loaded as step: a card that was not there is mounted with hasRoute false;
\* the effect is to be run after the mount and when project.current_step
\* changed (its dependencies are project.id and project.current_step).
renderCard(c, step) ==
    [current_step |-> step,
     hasRoute |-> c.hasRoute,
     effect |-> c.effect \/ c.current_step # step]

\* loadProjects: the answer of the select of projects; the list is shown
\* when the Dashboard is still mounted, with a ProjectCard for every project
\* of the list.
loadProjects(s) ==
    /\ pc[s] = "load_projects"
    /\ pc' = [pc EXCEPT ![s] = "idle"]
    /\ LET data == {p \in Projects :
                     current_step[p] # 0
                     /\ Allowed(auth_uid(s), "SELECT", ProjectPolicies, p)}
       IN  IF location[s] = "/dashboard"
           THEN /\ projects' = [projects EXCEPT ![s] = data]
                /\ card' = [card EXCEPT ![s] =
                     IF projectId(s) \in data
                     THEN renderCard(@, current_step[projectId(s)])
                     ELSE NoCard]
           ELSE UNCHANGED <<projects, card>>
    /\ UNCHANGED <<dbVars, pageVars, op, aoiVars, pointVars, mode, routeVars,
                   parameters, toast, completed, edits, generated,
                   downloading, downloaded, fetching, comparatorProjects,
                   session, location>>

\* The effect of the ProjectCard, loadRoutePreview: it returns at once when
\* project.current_step < 4 or when mapRef.current is null; otherwise it
\* selects the route of the project (.single()) and sets hasRoute by the
\* answer. The select only reads, so it is taken with the rest of the effect.
loadRoutePreview(s, fail) ==
    /\ location[s] = "/dashboard"
    /\ card[s].effect
    /\ card' = [card EXCEPT ![s] =
         IF @.current_step < 4 \/ ~mapRefCurrent(@)
         THEN [@ EXCEPT !.effect = FALSE]
         ELSE [@ EXCEPT !.effect = FALSE,
                        !.hasRoute =
                            ~fail /\ Single(Sel(s, routes, RoutePolicies)) # << >>]]
    /\ UNCHANGED <<dbVars, pageVars, pc, op, aoiVars, pointVars, mode,
                   routeVars, parameters, toast, completed, edits, generated,
                   downloading, downloaded, fetching, comparatorProjects,
                   authVars>>

\* handleArchiveProject from the click to the answer of the update of the
\* status (the status of a project is not followed): an error is shown,
\* otherwise "Project archived" is shown and loadProjects is called again.
handleArchiveProject(s, fail) ==
    /\ location[s] = "/dashboard" /\ pc[s] = "idle"
    /\ projects[s] # {}
    /\ toast' = [toast EXCEPT ![s] =
         IF fail THEN "Error" ELSE "Project archived"]
    /\ pc' = [pc EXCEPT ![s] = IF fail THEN "idle" ELSE "load_projects"]
    /\ UNCHANGED <<dbVars, pageVars, op, aoiVars, pointVars, mode, routeVars,
                   parameters, completed, edits, generated, downloadVars,
                   authVars>>

\* The ids in the comparator selection.
selected(s) == {comparatorProjects[s][n] : n \in 1..Len(comparatorProjects[s])}

\* (mutant: the drop does not look at the selection)
dropAcceptedAgain(s, id) == id \in projects[s]

\* handleDrop adds the project when it is in the loaded list and not yet in
\* the selection.
dropAccepted(s, id) == id \in projects[s] /\ id \notin selected(s)

\* handleDrop with the dragged project id in the dataTransfer.
handleDrop(s, id) ==
    /\ location[s] = "/dashboard"
    /\ IF dropAccepted(s, id)
       THEN /\ comparatorProjects' = [comparatorProjects EXCEPT ![s] = Append(@, id)]
            /\ toast' = [toast EXCEPT ![s] = "Project added to comparison"]
       ELSE UNCHANGED <<comparatorProjects, toast>>
    /\ UNCHANGED <<dbVars, pageVars, pc, op, aoiVars, pointVars, mode,
                   routeVars, parameters, completed, edits, generated,
                   downloading, downloaded, fetching, card, authVars>>

\* handleRemoveFromComparator(projectId): prev.filter(p => p.id !== projectId).
handleRemoveFromComparator(s, id) ==
    /\ location[s] = "/dashboard"
    /\ comparatorProjects' = [comparatorProjects EXCEPT ![s] =
         SelectSeq(@, LAMBDA x : x # id)]
    /\ UNCHANGED <<dbVars, pageVars, pc, op, aoiVars, pointVars, mode,
                   routeVars, parameters, toast, completed, edits, generated,
                   downloading, downloaded, fetching, card, authVars>>

\* onOpen of a project card: navigate to the project page, which mounts and
\* runs loadProject.
openProject(s) ==
    /\ location[s] = "/dashboard" /\ pc[s] = "idle"
    /\ projectId(s) \in projects[s]
    /\ location' = [location EXCEPT ![s] = "/project"]
    /\ projects' = [projects EXCEPT ![s] = {}]
    /\ card' = [card EXCEPT ![s] = NoCard]
    /\ comparatorProjects' = [comparatorProjects EXCEPT ![s] = << >>]
    /\ UNCHANGED <<dbVars, pageVars, pc, op, aoiVars, pointVars, mode,
                   routeVars, parameters, toast, completed, edits, generated,
                   downloading, downloaded, fetching, session>>

AuthNext(s) ==
    \/ signedOut(s)
    \/ openDashboard(s)
    \/ loadProjects(s)
    \/ openProject(s)

\* The ids a drag can carry: the projects, and an id of no project.
DropIds == Projects \cup {"X"}

DashboardNext(s) ==
    \/ \E fail \in BOOLEAN : loadRoutePreview(s, fail)
    \/ \E fail \in BOOLEAN : handleArchiveProject(s, fail)
    \/ \E id \in DropIds : handleDrop(s, id)
    \/ \E id \in DropIds : handleRemoveFromComparator(s, id)

\* ------------------------------------------------- requests to the database
\* Any user can send any request to the hosted database with the client key
\* and the token of the auth session; only the policies stand between a
\* request and the rows. current_step[p] = 0 stands for "no projects row p".

TableNames == {"aoi_polygons", "routing_parameters", "route_points", "routes"}

Table(name) ==
    CASE name = "aoi_polygons" -> aoi_polygons
      [] name = "routing_parameters" -> routing_parameters
      [] name = "route_points" -> route_points
      [] name = "routes" -> routes

Policies(name) ==
    CASE name = "aoi_polygons" -> AoiPolicies
      [] name = "routing_parameters" -> ParamPolicies
      [] name = "route_points" -> PointPolicies
      [] name = "routes" -> RoutePolicies

Unique(name) ==
    CASE name = "aoi_polygons" -> AoiUnique
      [] name = "routing_parameters" -> ParamUnique
      [] name = "route_points" -> PointUnique
      [] name = "routes" -> RouteUnique

\* The row a request carries for project p.
ApiRow(name, p) ==
    CASE name = "aoi_polygons" ->
           [project_id |-> p, geom |-> WestAOI, geojson |-> WestAOI]
      [] name = "routing_parameters" ->
           [project_id |-> p, parameters |-> << >>]
      [] name = "route_points" ->
           [project_id |-> p, point_type |-> "origin",
            geom |-> <<0, 0>>, geojson |-> <<0, 0>>]
      [] name = "routes" ->
           [project_id |-> p, geom |-> <<<<0, 0>>, <<0, 0>>>>,
            geojson |-> <<<<0, 0>>, <<0, 0>>>>, length_km |-> 0, cost |-> 0]

\* The tables after a request left the table called name as result.
SetTable(name, result) ==
    /\ aoi_polygons' = IF name = "aoi_polygons" THEN result ELSE aoi_polygons
    /\ routing_parameters' =
         IF name = "routing_parameters" THEN result ELSE routing_parameters
    /\ route_points' = IF name = "route_points" THEN result ELSE route_points
    /\ routes' = IF name = "routes" THEN result ELSE routes

\* The variables of the pages, which a bare request leaves alone.
clientVars == <<project, activeStep, stepUpdates, pc, aoiVars, pointVars, mode,
                routeVars, parameters, completed, edits, generated, downloadVars, authVars>>

Rows(table) == {table[i] : i \in 1..Len(table)}

\* from(name).select().eq("project_id", p): op[s] keeps the rows received.
apiSelect(s, name, p) ==
    /\ op' = [op EXCEPT ![s] =
         [NoOp EXCEPT !.features =
              Rows(DbSelect(auth_uid(s), Table(name), p, Policies(name)))]]
    /\ toast' = [toast EXCEPT ![s] = "select"]
    /\ UNCHANGED <<dbVars, clientVars>>

\* from(name).insert(row of project p); the foreign key wants the project.
apiInsert(s, name, p) ==
    /\ Len(Table(name)) < MaxRows
    /\ LET r == DbInsert(auth_uid(s), Table(name), ApiRow(name, p),
                         Policies(name), Unique(name), current_step[p] = 0)
       IN  /\ SetTable(name, r.table)
           /\ toast' = [toast EXCEPT ![s] = IF r.error THEN "Error" ELSE "insert"]
    /\ op' = [op EXCEPT ![s] = NoOp]
    /\ UNCHANGED <<current_step, clientVars>>

\* from(name).update(row of project q).eq("project_id", p).
apiUpdate(s, name, p, q) ==
    /\ LET r == DbUpdate(auth_uid(s), Table(name), p, ApiRow(name, q),
                         Policies(name), current_step[q] = 0)
       IN  /\ SetTable(name, r.table)
           /\ toast' = [toast EXCEPT ![s] = IF r.error THEN "Error" ELSE "update"]
    /\ op' = [op EXCEPT ![s] = NoOp]
    /\ UNCHANGED <<current_step, clientVars>>

\* from(name).delete().eq("project_id", p).eq("point_type", pointType) for
\* route_points, and without the second filter for the other tables (which
\* have no DELETE policy).
apiDelete(s, name, p, pointType) ==
    /\ SetTable(name, DbDelete(auth_uid(s), Table(name), p, pointType,
                               Policies(name)))
    /\ toast' = [toast EXCEPT ![s] = "delete"]
    /\ op' = [op EXCEPT ![s] = NoOp]
    /\ UNCHANGED <<current_step, clientVars>>

\* from("projects").select().eq("id", p): op[s].step keeps current_step of
\* the row received (0: no row).
apiSelectProject(s, p) ==
    /\ op' = [op EXCEPT ![s] =
         [NoOp EXCEPT !.step =
              IF Allowed(auth_uid(s), "SELECT", ProjectPolicies, p)
              THEN current_step[p] ELSE 0]]
    /\ toast' = [toast EXCEPT ![s] = "select"]
    /\ UNCHANGED <<dbVars, clientVars>>

\* from("projects").update({current_step: step}).eq("id", p).
apiUpdateProject(s, p, step) ==
    /\ current_step' =
         IF current_step[p] # 0 /\ Allowed(auth_uid(s), "UPDATE", ProjectPolicies, p)
         THEN [current_step EXCEPT ![p] = step]
         ELSE current_step
    /\ toast' = [toast EXCEPT ![s] = "update"]
    /\ op' = [op EXCEPT ![s] = NoOp]
    /\ UNCHANGED <<aoi_polygons, routing_parameters, route_points, routes,
                   clientVars>>

\* from("projects").delete().eq("id", p): ON DELETE CASCADE takes the rows of
\* the project in every table along.
apiDeleteProject(s, p) ==
    /\ LET hit == current_step[p] # 0
                  /\ Allowed(auth_uid(s), "DELETE", ProjectPolicies, p)
           keep(table) == IF hit
                          THEN SelectSeq(table, LAMBDA r : r.project_id # p)
                          ELSE table
       IN  /\ current_step' = IF hit THEN [current_step EXCEPT ![p] = 0]
                              ELSE current_step
           /\ aoi_polygons' = keep(aoi_polygons)
           /\ routing_parameters' = keep(routing_parameters)
           /\ route_points' = keep(route_points)
           /\ routes' = keep(routes)
    /\ toast' = [toast EXCEPT ![s] = "delete"]
    /\ op' = [op EXCEPT ![s] = NoOp]
    /\ UNCHANGED clientVars

\* from("projects").insert({id: p, user_id: user_id(p), current_step: 1}).
apiInsertProject(s, p) ==
    /\ LET ok == current_step[p] = 0
                 /\ Allowed(auth_uid(s), "INSERT", ProjectPolicies, p)
       IN  /\ current_step' = IF ok THEN [current_step EXCEPT ![p] = 1]
                              ELSE current_step
           /\ toast' = [toast EXCEPT ![s] = IF ok THEN "insert" ELSE "Error"]
    /\ op' = [op EXCEPT ![s] = NoOp]
    /\ UNCHANGED <<aoi_polygons, routing_parameters, route_points, routes,
                   clientVars>>

ApiNext(s) ==
    \/ \E name \in TableNames, p \in Projects : apiSelect(s, name, p)
    \/ \E name \in TableNames, p \in Projects : apiInsert(s, name, p)
    \/ \E name \in TableNames, p, q \in Projects : apiUpdate(s, name, p, q)
    \/ \E name \in TableNames, p \in Projects,
          pointType \in {"origin", "destination"} :
            apiDelete(s, name, p, pointType)
    \/ \E p \in Projects : apiSelectProject(s, p)
    \/ \E p \in Projects, step \in {6} : apiUpdateProject(s, p, step)
    \/ \E p \in Projects : apiDeleteProject(s, p)
    \/ \E p \in Projects : apiInsertProject(s, p)

\* ---------------------------------------------------------- specification

\* The steps of one session, by component.
PageNext(s) ==
    \/ loadProject(s)
    \/ \E k \in 1..6 : selectTab(s, k)
    \/ \E k \in 2..6, fail \in BOOLEAN : updateProjectStep(s, k, fail)

AoiNext(s) ==
    \/ \E a \in AoiChoices : drawAOI(s, a)
    \/ aoiHandleSave(s)
    \/ \E fail \in BOOLEAN : aoiWrite(s, fail)

EditNext(s) ==
    \/ \E index \in 1..Len(defaultParameters), field \in WeightFields,
          text \in InputTexts : handleWeightChange(s, index, field, text)
    \/ \E index \in 1..Len(defaultParameters), enabled \in BOOLEAN :
          handleEnabledChange(s, index, enabled)

ParamNext(s) ==
    \/ paramHandleSave(s)
    \/ \E fail \in BOOLEAN : paramWrite(s, fail)

PointNext(s) ==
    \/ \E pointType \in {"origin", "destination"} : enableDrawing(s, pointType)
    \/ \E c \in PointChoices : drawend(s, c)
    \/ \E fail \in BOOLEAN : pointInsert(s, fail)

DownloadNext(s) ==
    \/ \E type \in DownloadTypes : downloadFile(s, type)
    \/ \E type \in DownloadTypes, fail \in BOOLEAN :
          downloadAnswer(s, type, fail)

RouteNext(s) ==
    \/ \E i, j \in 1..MaxRows, fail \in BOOLEAN : generateRoute(s, i, j, fail)
    \/ routeSelect(s)
    \/ \E fail \in BOOLEAN : routeWrite(s, fail)

\* The whole workflow in one session.
Next ==
    \/ PageNext("s1") \/ AoiNext("s1") \/ ParamNext("s1")
    \/ PointNext("s1") \/ RouteNext("s1")

Spec == Init /\ [][Next]_vars

\* Step 1 in every session at once.
NextAOI == \E s \in Sessions : PageNext(s) \/ AoiNext(s)

SpecAOI == Init /\ [][NextAOI]_vars

\* A project whose steps 1 and 2 are done (an AOI and the default parameters
\* are stored), before any session opens it.
InitPoints ==
    /\ aoi_polygons \in {<<[project_id |-> "P", geom |-> a, geojson |-> a]>> : a \in AoiChoices}
    /\ routing_parameters =
         <<[project_id |-> "P", parameters |-> ToJson(defaultParameters)]>>
    /\ route_points = << >>
    /\ routes = << >>
    /\ current_step = [p \in Projects |-> IF p = "P" THEN 3 ELSE 1]
    /\ session = [s \in Clients |-> TRUE]
    /\ location = [s \in Clients |-> "/project"]
    /\ projects = [s \in Clients |-> {}]
    /\ project = [s \in Clients |-> 0]
    /\ activeStep = [s \in Clients |-> 1]
    /\ pc = [s \in Clients |-> "idle"]
    /\ op = [s \in Clients |-> NoOp]
    /\ stepUpdates = [s \in Clients |-> {}]
    /\ hasAOI = [s \in Clients |-> FALSE]
    /\ vectorSource = [s \in Clients |-> {}]
    /\ hasOrigin = [s \in Clients |-> FALSE]
    /\ hasDestination = [s \in Clients |-> FALSE]
    /\ mode = [s \in Clients |-> None]
    /\ routeSource = [s \in Clients |-> {}]
    /\ hasRoute = [s \in Clients |-> FALSE]
    /\ parameters = [s \in Clients |-> defaultParameters]
    /\ toast = [s \in Clients |-> None]
    /\ completed = {1, 2}
    /\ edits = 0
    /\ generated = << >>
    /\ downloading = [s \in Clients |-> None]
    /\ downloaded = [s \in Clients |-> NoFile]
    /\ fetching = [s \in Clients |-> {}]
    /\ card = [s \in Clients |-> NoCard]
    /\ comparatorProjects = [s \in Clients |-> << >>]

\* Step 3 in every session at once.
NextPoints == \E s \in Sessions : PageNext(s) \/ PointNext(s)

SpecPoints == InitPoints /\ [][NextPoints]_vars

\* A project whose steps 1 to 3 are done (an origin and a destination are
\* stored as well), before any session opens it.
InitRoute ==
    /\ aoi_polygons \in {<<[project_id |-> "P", geom |-> a, geojson |-> a]>> : a \in AoiChoices}
    /\ routing_parameters =
         <<[project_id |-> "P", parameters |-> ToJson(defaultParameters)]>>
    /\ route_points \in
         {<<[project_id |-> "P", point_type |-> "origin",
             geom |-> o, geojson |-> o],
            [project_id |-> "P", point_type |-> "destination",
             geom |-> d, geojson |-> d]>> :
          o \in PointChoices, d \in PointChoices}
    /\ routes = << >>
    /\ current_step = [p \in Projects |-> IF p = "P" THEN 4 ELSE 1]
    /\ session = [s \in Clients |-> TRUE]
    /\ location = [s \in Clients |-> "/project"]
    /\ projects = [s \in Clients |-> {}]
    /\ project = [s \in Clients |-> 0]
    /\ activeStep = [s \in Clients |-> 1]
    /\ pc = [s \in Clients |-> "idle"]
    /\ op = [s \in Clients |-> NoOp]
    /\ stepUpdates = [s \in Clients |-> {}]
    /\ hasAOI = [s \in Clients |-> FALSE]
    /\ vectorSource = [s \in Clients |-> {}]
    /\ hasOrigin = [s \in Clients |-> FALSE]
    /\ hasDestination = [s \in Clients |-> FALSE]
    /\ mode = [s \in Clients |-> None]
    /\ routeSource = [s \in Clients |-> {}]
    /\ hasRoute = [s \in Clients |-> FALSE]
    /\ parameters = [s \in Clients |-> defaultParameters]
    /\ toast = [s \in Clients |-> None]
    /\ completed = {1, 2, 3}
    /\ edits = 0
    /\ generated = << >>
    /\ downloading = [s \in Clients |-> None]
    /\ downloaded = [s \in Clients |-> NoFile]
    /\ fetching = [s \in Clients |-> {}]
    /\ card = [s \in Clients |-> NoCard]
    /\ comparatorProjects = [s \in Clients |-> << >>]

\* Step 4 in every session at once, while one session may also redraw and
\* save the AOI.
NextRoute ==
    \/ \E s \in Sessions : PageNext(s) \/ RouteNext(s)
    \/ AoiNext("s1")

SpecRoute == InitRoute /\ [][NextRoute]_vars

\* A project whose step 1 is done, before any session opens it.
InitParameters ==
    /\ aoi_polygons \in {<<[project_id |-> "P", geom |-> a, geojson |-> a]>> : a \in AoiChoices}
    /\ routing_parameters = << >>
    /\ route_points = << >>
    /\ routes = << >>
    /\ current_step = [p \in Projects |-> IF p = "P" THEN 2 ELSE 1]
    /\ session = [s \in Clients |-> TRUE]
    /\ location = [s \in Clients |-> "/project"]
    /\ projects = [s \in Clients |-> {}]
    /\ project = [s \in Clients |-> 0]
    /\ activeStep = [s \in Clients |-> 1]
    /\ pc = [s \in Clients |-> "idle"]
    /\ op = [s \in Clients |-> NoOp]
    /\ stepUpdates = [s \in Clients |-> {}]
    /\ hasAOI = [s \in Clients |-> FALSE]
    /\ vectorSource = [s \in Clients |-> {}]
    /\ hasOrigin = [s \in Clients |-> FALSE]
    /\ hasDestination = [s \in Clients |-> FALSE]
    /\ mode = [s \in Clients |-> None]
    /\ routeSource = [s \in Clients |-> {}]
    /\ hasRoute = [s \in Clients |-> FALSE]
    /\ parameters = [s \in Clients |-> defaultParameters]
    /\ toast = [s \in Clients |-> None]
    /\ completed = {1}
    /\ edits = 0
    /\ generated = << >>
    /\ downloading = [s \in Clients |-> None]
    /\ downloaded = [s \in Clients |-> NoFile]
    /\ fetching = [s \in Clients |-> {}]
    /\ card = [s \in Clients |-> NoCard]
    /\ comparatorProjects = [s \in Clients |-> << >>]

\* Step 2 in one session: the edits of the table and Save Parameters.
NextParameters == PageNext("s1") \/ EditNext("s1") \/ ParamNext("s1")

SpecParameters == InitParameters /\ [][NextParameters]_vars

\* ----------------------------------------------------------------- claims

\* C1: aoi_polygons never holds more than one row of the project, however
\* the Save AOI operations of the sessions interleave; and a handleSave that
\* found the row and ends with "AOI Saved" leaves that one row holding the
\* geometry it saved.
C1_OneAOIPerProject ==
    [][/\ Len(aoi_polygons') <= 1
       /\ \A s \in Sessions :
            (pc[s] = "aoi_write" /\ op[s].existing /\ toast'[s] = "AOI Saved")
            => /\ Len(aoi_polygons) = 1
               /\ aoi_polygons' =
                    <<[project_id |-> "P",
                       geom |-> CHOOSE g \in op[s].features : TRUE,
                       geojson |-> CHOOSE g \in op[s].features : TRUE]>>]_vars

\* Both sessions saved with success and a single row is stored: one of the
\* two saves found the row of the other and replaced its geometry.
C1_Witness ==
    /\ toast["s1"] = "AOI Saved"
    /\ toast["s2"] = "AOI Saved"
    /\ Len(aoi_polygons) = 1

\* The rows of route_points of one type.
PointRows(pointType) ==
    {i \in 1..Len(route_points) : route_points[i].point_type = pointType}

\* C2: in every reachable state the project has at most one origin row and
\* at most one destination row in route_points, also when the savePoint
\* operations of two sessions interleave.
C2_OnePointPerType ==
    /\ Cardinality(PointRows("origin")) <= 1
    /\ Cardinality(PointRows("destination")) <= 1

\* C3: in every reachable state a row in routes implies one origin row and
\* one destination row in route_points.
C3_RouteOnlyWithBothPoints ==
    Len(routes) >= 1
    => /\ Cardinality(PointRows("origin")) = 1
       /\ Cardinality(PointRows("destination")) = 1

\* C4: whenever generateRoute ends with "Route Generated", the routes table
\* then holds exactly the row this call computed (geometry, length, cost).
C4_RouteReplacedWholesale ==
    [][\A s \in Sessions :
         (pc[s] = "route_write" /\ toast'[s] = "Route Generated")
         => routes' = <<CHOOSE g \in op[s].features : TRUE>>]_vars

\* The open tab of a session is never beyond its project.current_step, and
\* a step k is never stored, loaded or requested unless the completion
\* callback of step k-1 has been called.
TabsFollowSteps ==
    \A s \in Sessions :
        /\ project[s] # 0 => activeStep[s] <= project[s]
        /\ \A k \in 2..6 :
             (project[s] >= k \/ current_step["P"] >= k
              \/ k \in stepUpdates[s])
             => (k - 1) \in completed

\* The step ends a save of session s with its success notification.
SaveSucceeded(s) ==
    /\ pc[s] \in {"aoi_write", "param_write", "point_insert", "route_write"}
    /\ toast'[s] \in {"AOI Saved", "Parameters Saved", "Point Added",
                      "Route Generated"}

\* C5: the six tabs are sequential (TabsFollowSteps holds after every step),
\* and for k in 2..6 an updateProjectStep(k) is requested only by the step in
\* which the save of the session's step component succeeded.
C5_SequentialTabs ==
    [][/\ TabsFollowSteps'
       /\ \A s \in Sessions :
            stepUpdates'[s] \ stepUpdates[s] # {} => SaveSucceeded(s)]_vars

\* The stored AOI contains the cell (a stored AOI of no row contains none).
InAOI(c) == Len(aoi_polygons) = 1 /\ c \in aoi_polygons[1].geom

\* C6: a generateRoute whose origin or destination lies outside the stored
\* AOI ends with an error, stores no route and requests no step.
C6_EndpointValidation ==
    [][\A s \in Sessions :
         LET row == CHOOSE g \in op[s].features : TRUE
         IN  (pc[s] = "route_write"
              /\ (~InAOI(row.geojson[1]) \/ ~InAOI(row.geojson[2])))
             => /\ toast'[s] = "Error"
                /\ routes' = routes
                /\ stepUpdates'[s] = stepUpdates[s]]_vars

\* C7: when generateRoute has ended with "Route Generated" for endpoints
\* inside the stored AOI, every cell the stored route passes through is a
\* cell of the AOI.
C7_RouteInsideAOI ==
    \A s \in Sessions :
        (toast[s] = "Route Generated" /\ Len(routes) = 1
         /\ InAOI(routes[1].geojson[1]) /\ InAOI(routes[1].geojson[2]))
        => \A c \in SegmentCells(routes[1].geojson[1], routes[1].geojson[2]) :
              InAOI(c)

\* C8: once a route is stored, a step that changes the stored AOI leaves no
\* route stored.
C8_AOIImmutableOnceRouted ==
    [][(Len(routes) >= 1 /\ aoi_polygons' # aoi_polygons)
       => routes' = << >>]_vars

\* C9: a generateRoute that ends with "Route Generated" on the same stored
\* inputs (AOI, weights, points) as the last such call leaves the routes
\* table as that call left it.
C9_Idempotent ==
    [][\A s \in Sessions :
         (pc[s] = "route_write" /\ toast'[s] = "Route Generated"
          /\ generated # << >> /\ generated[1] = RouteInputs)
         => routes' = generated[2]]_vars

\* Two sessions generated the route of the same inputs, one after the other.
C9_Witness ==
    /\ toast["s1"] = "Route Generated"
    /\ toast["s2"] = "Route Generated"
    /\ generated # << >>
    /\ generated[1] = RouteInputs
    /\ generated[2] = routes

\* C10: every weight of every stored routing_parameters row is a number
\* between 0 and 1.
InUnitInterval(w) == w.kind = "number" /\ 0 <= w.tenths /\ w.tenths <= 10

C10_WeightsInUnitInterval ==
    \A n \in 1..Len(routing_parameters) :
        \A i \in 1..Len(routing_parameters[n].parameters) :
            \A field \in WeightFields :
                InUnitInterval(routing_parameters[n].parameters[i][field])

\* Both projects with their data stored: an AOI, parameters, an origin, a
\* destination and a route each.
InitRLS ==
    /\ aoi_polygons =
         <<[project_id |-> "P", geom |-> LShapeAOI, geojson |-> LShapeAOI],
           [project_id |-> "Q", geom |-> LShapeAOI, geojson |-> LShapeAOI]>>
    /\ routing_parameters =
         <<[project_id |-> "P", parameters |-> ToJson(defaultParameters)],
           [project_id |-> "Q", parameters |-> ToJson(defaultParameters)]>>
    /\ route_points =
         <<[project_id |-> "P", point_type |-> "origin",
            geom |-> <<0, GridMax>>, geojson |-> <<0, GridMax>>],
           [project_id |-> "Q", point_type |-> "destination",
            geom |-> <<GridMax, 0>>, geojson |-> <<GridMax, 0>>]>>
    /\ routes \in
         {<<routeRow("P", [geojson |-> <<0, GridMax>>], [geojson |-> d]),
            routeRow("Q", [geojson |-> <<0, GridMax>>], [geojson |-> d])>> :
          d \in PointChoices}
    /\ current_step = [p \in Projects |-> 4]
    /\ session = [s \in Clients |-> TRUE]
    /\ location = [s \in Clients |-> "/project"]
    /\ projects = [s \in Clients |-> {}]
    /\ project = [s \in Clients |-> 0]
    /\ activeStep = [s \in Clients |-> 1]
    /\ pc = [s \in Clients |-> "idle"]
    /\ op = [s \in Clients |-> NoOp]
    /\ stepUpdates = [s \in Clients |-> {}]
    /\ hasAOI = [s \in Clients |-> FALSE]
    /\ vectorSource = [s \in Clients |-> {}]
    /\ hasOrigin = [s \in Clients |-> FALSE]
    /\ hasDestination = [s \in Clients |-> FALSE]
    /\ mode = [s \in Clients |-> None]
    /\ routeSource = [s \in Clients |-> {}]
    /\ hasRoute = [s \in Clients |-> FALSE]
    /\ parameters = [s \in Clients |-> defaultParameters]
    /\ toast = [s \in Clients |-> None]
    /\ completed = {1, 2, 3}
    /\ edits = 0
    /\ generated = << >>
    /\ downloading = [s \in Clients |-> None]
    /\ downloaded = [s \in Clients |-> NoFile]
    /\ fetching = [s \in Clients |-> {}]
    /\ card = [s \in Clients |-> NoCard]
    /\ comparatorProjects = [s \in Clients |-> << >>]

\* User B (session s3) sends requests of every kind for either project.
NextRLS == \E s \in Others : ApiNext(s)

SpecRLS == InitRLS /\ [][NextRLS]_vars

\* What user u can read of project p: the rows every table yields to a
\* select, and current_step of the projects row.
Observed(u, p) ==
    <<DbSelect(u, aoi_polygons, p, AoiPolicies),
      DbSelect(u, routing_parameters, p, ParamPolicies),
      DbSelect(u, route_points, p, PointPolicies),
      DbSelect(u, routes, p, RoutePolicies),
      IF Allowed(u, "SELECT", ProjectPolicies, p) THEN current_step[p] ELSE 0>>

\* The rows of project p, whoever asks.
Stored(p) ==
    <<SelectSeq(aoi_polygons, LAMBDA r : r.project_id = p),
      SelectSeq(routing_parameters, LAMBDA r : r.project_id = p),
      SelectSeq(route_points, LAMBDA r : r.project_id = p),
      SelectSeq(routes, LAMBDA r : r.project_id = p),
      current_step[p]>>

\* C11: every step of SpecRLS is a request of a session of user B. Such a
\* request leaves the rows of every project of another user as they were, so
\* what the owner observes of them is unchanged; the rows it receives are
\* never those of a project of another user, and nothing of such a project is
\* readable to B; this for select, insert, update and delete on the five
\* tables.
C11_OwnProjectDataOnly ==
    [][\A s \in Others : \A p \in Projects :
         user_id(p) # UserOf(s)
         => /\ Stored(p)' = Stored(p)
            /\ Observed(user_id(p), p)' = Observed(user_id(p), p)
            /\ \A r \in op'[s].features : r.project_id # p
            /\ Observed(UserOf(s), p)' = <<<< >>, << >>, << >>, << >>, 0>>]_vars

\* A select of user B came back empty although every table holds rows of B's
\* own project Q: it asked for project P of user A, whose rows are stored.
C11_Witness ==
    /\ toast["s3"] = "select"
    /\ op["s3"].features = {} /\ op["s3"].step = 0
    /\ \A n \in 1..4 : Len(Stored("Q")[n]) >= 1
    /\ current_step["Q"] # 0
    /\ \A n \in 1..4 : Len(Stored("P")[n]) >= 1

\* Steps 1 in one session, with the Dashboard and the end of the auth
\* session.
NextAuth == PageNext("s1") \/ AoiNext("s1") \/ AuthNext("s1")

SpecAuth == Init /\ [][NextAuth]_vars

\* C12: a browser without an auth session shows neither the project page
\* with a loaded project nor the Dashboard: when the session ends, or is
\* missing at the start, the page has navigated to /auth.
C12_NoSessionNoProjectData ==
    \A s \in Sessions :
        ~session[s]
        => /\ ~(location[s] = "/project" /\ project[s] # 0)
           /\ location[s] # "/dashboard"

\* C13: the savePoint that calls the completion callback of step 3 for the
\* first time is one whose insert succeeded and after which an origin row and
\* a destination row are stored, and every such savePoint (while the callback
\* has not been called yet) calls it.
C13_Step3CompleteIffBothPoints ==
    [][\A s \in Sessions :
         (pc[s] = "point_insert" /\ 3 \notin completed)
         => (3 \in completed'
             <=> /\ toast'[s] = "Point Added"
                 /\ PointRows("origin")' # {}
                 /\ PointRows("destination")' # {})]_vars

\* The terms of C14. The cost surface of one land-cover subcategory (row of
\* the weight table) whose polygon covers area: baseline 1.0 everywhere, plus
\* the generalWeight of the row on the cells of the area when the row is
\* enabled (in tenths). A step into a cell costs the cell's cost times the
\* length of the step (in thousandths of a cell: 1414 for a diagonal step).
CellCost(row, area, c) ==
    10 + (IF c \in area /\ row.enabled /\ row.generalWeight.kind = "number"
          THEN row.generalWeight.tenths ELSE 0)

Adjacent(a, b) ==
    /\ a # b
    /\ a[1] - b[1] \in -1..1
    /\ a[2] - b[2] \in -1..1

StepLength(a, b) == IF a[1] # b[1] /\ a[2] # b[2] THEN 1414 ELSE 1000

RECURSIVE PathCost(_, _, _)
PathCost(row, area, path) ==
    IF Len(path) < 2 THEN 0
    ELSE CellCost(row, area, path[2]) * StepLength(path[1], path[2])
         + PathCost(row, area, Tail(path))

\* The cells of the straight segment from a to b, in the order the segment
\* passes them.
StraightPath(a, b) ==
    LET cells == SegmentCells(a, b)
        before(c) == {e \in cells :
                        (e[1] - a[1]) * (e[1] - a[1]) + (e[2] - a[2]) * (e[2] - a[2])
                        < (c[1] - a[1]) * (c[1] - a[1]) + (c[2] - a[2]) * (c[2] - a[2])}
    IN  [n \in 1..Cardinality(cells) |->
            CHOOSE c \in cells : Cardinality(before(c)) = n - 1]

\* The routes of three steps from a to b over cells of the AOI aoi.
Detours(a, b, aoi) ==
    {<<a, c, e, b>> : c \in aoi, e \in aoi} \cap
    {path \in Seq(Cells) :
        /\ Len(path) = 4
        /\ \A n \in 1..3 : Adjacent(path[n], path[n + 1])}

\* C14: the route stored by a generateRoute that ended with "Route
\* Generated" is, for every land-cover subcategory of the saved weight table
\* whose area the route traverses between its endpoints, no costlier than a
\* route around that area inside the AOI (a higher generalWeight makes the
\* traversal costlier, and the cheaper route around the area is returned).
C14_PrefersCheaperRouteAround ==
    (generated # << >> /\ Len(generated[2]) = 1
     /\ Len(generated[1][1]) = 1 /\ Len(generated[1][2]) = 1)
    => LET route == generated[2][1]
           aoi == generated[1][1][1].geom
           params == generated[1][2][1].parameters
           path == StraightPath(route.geojson[1], route.geojson[2])
           area == {path[n] : n \in 2..(Len(path) - 1)}
       IN  (\A n \in 1..(Len(path) - 1) : Adjacent(path[n], path[n + 1]))
           => \A i \in 1..Len(params) :
                  params[i].layer = "Land Cover"
                  => \A detour \in Detours(route.geojson[1], route.geojson[2], aoi) :
                         PathCost(params[i], area, path)
                         <= PathCost(params[i], area, detour)

\* C15: an update of current_step to 6 is requested only by a session that
\* already shows the analytics step (the user has it before them and
\* completes it), never by the step that brings the analytics step up; so
\* current_step does not go from 5 to 6 as a consequence of generating the
\* route.
C15_Step6ByUserAction ==
    [][\A s \in Sessions :
         6 \in stepUpdates'[s] \ stepUpdates[s]
         => (activeStep[s] = 5 /\ project[s] # 0 /\ pc[s] = "idle")]_vars

\* A project whose route has been generated and whose update to step 5 has
\* arrived, before the session opens it.
InitDownload ==
    /\ aoi_polygons \in {<<[project_id |-> "P", geom |-> a, geojson |-> a]>> : a \in AoiChoices}
    /\ routing_parameters =
         <<[project_id |-> "P", parameters |-> ToJson(defaultParameters)]>>
    /\ route_points \in
         {<<[project_id |-> "P", point_type |-> "origin",
             geom |-> o, geojson |-> o],
            [project_id |-> "P", point_type |-> "destination",
             geom |-> d, geojson |-> d]>> :
          o \in PointChoices, d \in PointChoices}
    /\ routes = <<routeRow("P", route_points[1], route_points[2])>>
    /\ current_step = [p \in Projects |-> IF p = "P" THEN 5 ELSE 1]
    /\ session = [s \in Clients |-> TRUE]
    /\ location = [s \in Clients |-> "/project"]
    /\ projects = [s \in Clients |-> {}]
    /\ project = [s \in Clients |-> 0]
    /\ activeStep = [s \in Clients |-> 1]
    /\ pc = [s \in Clients |-> "idle"]
    /\ op = [s \in Clients |-> NoOp]
    /\ stepUpdates = [s \in Clients |-> {}]
    /\ hasAOI = [s \in Clients |-> FALSE]
    /\ vectorSource = [s \in Clients |-> {}]
    /\ hasOrigin = [s \in Clients |-> FALSE]
    /\ hasDestination = [s \in Clients |-> FALSE]
    /\ mode = [s \in Clients |-> None]
    /\ routeSource = [s \in Clients |-> {}]
    /\ hasRoute = [s \in Clients |-> FALSE]
    /\ parameters = [s \in Clients |-> defaultParameters]
    /\ toast = [s \in Clients |-> None]
    /\ completed = {1, 2, 3, 4}
    /\ edits = 0
    /\ generated = <<RouteInputs, routes>>
    /\ downloading = [s \in Clients |-> None]
    /\ downloaded = [s \in Clients |-> NoFile]
    /\ fetching = [s \in Clients |-> {}]
    /\ card = [s \in Clients |-> NoCard]
    /\ comparatorProjects = [s \in Clients |-> << >>]

\* Steps 5 and 6 in one session.
NextDownload == PageNext("s1") \/ DownloadNext("s1")

SpecDownload == InitDownload /\ [][NextDownload]_vars

\* The rows of a table stored for the project of session s.
StoredFor(s, table) == SelectSeq(table, LAMBDA r : r.project_id = projectId(s))

\* C16: a downloadFile ends with "Download Complete" or with "Error"; when it
\* ends with "Download Complete" the file handed to the browser holds the
\* AOI or route data then stored for the project (the geojson, its
\* coordinates, or the length and cost); when the fetch failed or no row is
\* stored it ends with "Error" and hands no file to the browser.
C16_DownloadedFilesCorrect ==
    [][\A s \in Sessions :
         \A type \in fetching[s] \ fetching'[s] :
            LET rows == StoredFor(s, IF type = "aoi-geojson"
                                     THEN aoi_polygons ELSE routes)
                file == downloaded'[s]
            IN  IF toast'[s] = "Download Complete"
                THEN /\ Len(rows) = 1
                     /\ CASE type \in {"aoi-geojson", "route-geojson"} ->
                               /\ file.text = "json"
                               /\ file.data = <<rows[1].geojson>>
                          [] type = "route-kml" ->
                               /\ file.text = "kml"
                               /\ file.data = rows[1].geojson
                          [] type = "report-csv" ->
                               /\ file.text = "csv"
                               /\ file.data =
                                    <<[na |-> FALSE, value |-> rows[1].length_km],
                                      [na |-> FALSE, value |-> rows[1].cost],
                                      projectId(s)>>
                ELSE /\ toast'[s] = "Error"
                     /\ file = downloaded[s]]_vars

\* The rows and the texts of the edits of SpecWeights: one row of each layer
\* (Land Cover, Transmission Lines, Railroads), a number and the empty text.
WeightRows == {1, 5, 8}

WeightTexts == {"0.5", ""}

\* Step 2 in one session, with the weight edits of these rows.
NextWeights ==
    \/ PageNext("s1")
    \/ \E index \in WeightRows, field \in WeightFields, text \in WeightTexts :
          handleWeightChange("s1", index, field, text)
    \/ ParamNext("s1")

SpecWeights == InitParameters /\ [][NextWeights]_vars

\* C17: in every stored weight table, generalWeight is 0 in the rows whose
\* layer is not Land Cover, corridorWeight is 0 in the rows whose layer is
\* Land Cover, and barrierWeight is 0 in the rows whose layer is not
\* Railroads, whatever edits preceded the save.
C17_WeightsOfLayerKindOnly ==
    \A n \in 1..Len(routing_parameters) :
        \A i \in 1..Len(routing_parameters[n].parameters) :
            LET row == routing_parameters[n].parameters[i]
            IN  /\ row.layer # "Land Cover" => row.generalWeight = Num(0)
                /\ row.layer = "Land Cover" => row.corridorWeight = Num(0)
                /\ row.layer # "Railroads" => row.barrierWeight = Num(0)

\* A table is stored in which MaxEdits weights differ from the defaults.
C17_Witness ==
    /\ Len(routing_parameters) = 1
    /\ toast["s1"] = "Parameters Saved"
    /\ Cardinality({<<i, field>> \in (1..Len(defaultParameters)) \X WeightFields :
                       routing_parameters[1].parameters[i][field]
                       # ToJson(defaultParameters)[i][field]}) >= MaxEdits

\* C18: the project never has more than one routing_parameters row; a
\* StepParameters that is mounted (the tab is opened) shows the default table
\* when the project has no row and the table of the row otherwise; and a
\* handleSave that ends with "Parameters Saved" leaves the one row holding
\* exactly the table it saved, so that a later loadParameters yields it.
C18_ParametersDefaultThenSaved ==
    [][\A s \in Sessions :
         LET rows == StoredFor(s, routing_parameters')
         IN  /\ Len(rows) <= 1
             /\ (activeStep[s] # 2 /\ activeStep'[s] = 2 /\ project'[s] # 0)
                => parameters'[s] = IF rows = << >> THEN defaultParameters
                                    ELSE rows[1].parameters
             /\ (pc[s] = "param_write" /\ toast'[s] = "Parameters Saved")
                => /\ Len(rows) = 1
                   /\ rows[1].parameters = op[s].parameters]_vars

\* Two projects of one user whose steps 1 to 3 are done, each with its own
\* points, before the user opens them in two tabs.
InitProjects ==
    /\ aoi_polygons =
         <<[project_id |-> "P", geom |-> LShapeAOI, geojson |-> LShapeAOI],
           [project_id |-> "R", geom |-> LShapeAOI, geojson |-> LShapeAOI]>>
    /\ routing_parameters =
         <<[project_id |-> "P", parameters |-> ToJson(defaultParameters)],
           [project_id |-> "R", parameters |-> ToJson(defaultParameters)]>>
    /\ route_points \in
         {<<[project_id |-> "P", point_type |-> "origin",
             geom |-> o, geojson |-> o],
            [project_id |-> "R", point_type |-> "origin",
             geom |-> d, geojson |-> d],
            [project_id |-> "R", point_type |-> "destination",
             geom |-> e, geojson |-> e],
            [project_id |-> "P", point_type |-> "destination",
             geom |-> d, geojson |-> d]>> :
          o \in PointChoices, d \in PointChoices, e \in PointChoices}
    /\ routes = << >>
    /\ current_step = [p \in Projects |-> IF p = "Q" THEN 1 ELSE 4]
    /\ session = [s \in Clients |-> TRUE]
    /\ location = [s \in Clients |-> "/project"]
    /\ projects = [s \in Clients |-> {}]
    /\ project = [s \in Clients |-> 0]
    /\ activeStep = [s \in Clients |-> 1]
    /\ pc = [s \in Clients |-> "idle"]
    /\ op = [s \in Clients |-> NoOp]
    /\ stepUpdates = [s \in Clients |-> {}]
    /\ hasAOI = [s \in Clients |-> FALSE]
    /\ vectorSource = [s \in Clients |-> {}]
    /\ hasOrigin = [s \in Clients |-> FALSE]
    /\ hasDestination = [s \in Clients |-> FALSE]
    /\ mode = [s \in Clients |-> None]
    /\ routeSource = [s \in Clients |-> {}]
    /\ hasRoute = [s \in Clients |-> FALSE]
    /\ parameters = [s \in Clients |-> defaultParameters]
    /\ toast = [s \in Clients |-> None]
    /\ completed = {1, 2, 3}
    /\ edits = 0
    /\ generated = << >>
    /\ downloading = [s \in Clients |-> None]
    /\ downloaded = [s \in Clients |-> NoFile]
    /\ fetching = [s \in Clients |-> {}]
    /\ card = [s \in Clients |-> NoCard]
    /\ comparatorProjects = [s \in Clients |-> << >>]

\* Step 4 of the two projects, each in its tab.
NextProjects == \E s \in {"s1"} \cup Tabs : PageNext(s) \/ RouteNext(s)

SpecProjects == InitProjects /\ [][NextProjects]_vars

\* The rows of a table stored for project p.
RowsOf(p, table) == SelectSeq(table, LAMBDA r : r.project_id = p)

\* The row of one type among the route_points rows stored for project p.
PointOf(p, pointType) ==
    LET rows == RowsOf(p, route_points)
    IN  rows[CHOOSE n \in 1..Len(rows) : rows[n].point_type = pointType]

\* C19: whatever the interleaving of the generations of the two projects,
\* no step changes route_points; a step changes the routes rows of a project
\* only as the write of a generateRoute of that project; the route a
\* generateRoute of a project computes is the one of the points stored for
\* that project; and when it ends with "Route Generated" the project's
\* route is exactly that row, as if the generation had run alone.
C19_GenerationsIndependent ==
    [][/\ route_points' = route_points
       /\ \A p \in Projects :
            RowsOf(p, routes') # RowsOf(p, routes)
            => \E s \in Clients :
                   projectId(s) = p /\ pc[s] = "route_write" /\ pc'[s] = "idle"
       /\ \A s \in Clients :
            LET p == projectId(s)
                alone == routeRow(p, PointOf(p, "origin"),
                                  PointOf(p, "destination"))
            IN  /\ pc'[s] = "route_select" => op'[s].features = {alone}
                /\ (pc[s] = "route_write" /\ toast'[s] = "Route Generated")
                   => RowsOf(p, routes') = <<alone>>]_vars

\* Both projects have their route, and the two routes differ.
C19_Witness ==
    /\ toast["s1"] = "Route Generated"
    /\ toast["s4"] = "Route Generated"
    /\ Len(RowsOf("P", routes)) = 1
    /\ Len(RowsOf("R", routes)) = 1
    /\ RowsOf("P", routes)[1].geojson # RowsOf("R", routes)[1].geojson

\* C20: every generateRoute runs to its end and ends with a notification (no
\* exception leaves it), and the notification tells the kind of the failure:
\* "points are required" is shown only when the project lacks a stored
\* origin or a stored destination, and a generation whose points were found
\* ends with "Route Generated" or with the error message of the database.
C20_ErrorsKeepTheirKind ==
    [][\A s \in Sessions :
         /\ (Ready(s) /\ activeStep[s] = 4 /\ toast[s] # PointsRequired
             /\ toast'[s] = PointsRequired)
            => (PointRows("origin") = {} \/ PointRows("destination") = {})
         /\ pc[s] = "route_select" => pc'[s] \in {"route_select", "route_write"}
         /\ pc[s] = "route_write"
            => (pc'[s] = "route_write"
                \/ (pc'[s] = "idle"
                    /\ toast'[s] \in {"Route Generated", "Error"}))]_vars

\* The project lacks a stored origin or a stored destination.
LacksPoint == PointRows("origin") = {} \/ PointRows("destination") = {}

\* C21: a generateRoute of a session on tab 4 while the project lacks an
\* origin or a destination ends at once (generating is false again) with the
\* notification "Both origin and destination points are required": it writes
\* no routes row, leaves the route on the map as it was and requests no step.
C21_GenerateWithoutPoints ==
    [][\A s \in Sessions :
         (Ready(s) /\ activeStep[s] = 4 /\ LacksPoint)
         => /\ pc'[s] = "idle"
            /\ (activeStep'[s] = 4 /\ toast'[s] # None /\ toast'[s] # toast[s])
               => /\ toast'[s] =
                       "Error: Both origin and destination points are required"
                  /\ routes' = routes
                  /\ routeSource'[s] = routeSource[s]
                  /\ hasRoute'[s] = hasRoute[s]
                  /\ stepUpdates'[s] = stepUpdates[s]
                  /\ completed' = completed]_vars

\* generateRoute has just failed for a project with a destination and no
\* origin.
C21_Witness ==
    /\ toast["s1"] = "Error: Both origin and destination points are required"
    /\ activeStep["s1"] = 4 /\ pc["s1"] = "idle"
    /\ PointRows("origin") = {}
    /\ PointRows("destination") # {}

\* Steps 1 and 2 of a new project in every session at once: each session
\* can save the AOI, and one also saves the parameters.
NextSteps ==
    \/ \E s \in Sessions : PageNext(s) \/ AoiNext(s)
    \/ ParamNext("s1")

SpecSteps == Init /\ [][NextSteps]_vars

\* C22: the stored current_step of the project stays in 1..6 and no step
\* makes it smaller, however the step completions of the sessions
\* interleave.
C22_CurrentStepMonotonic ==
    [][/\ current_step'["P"] \in 1..6
       /\ current_step'["P"] >= current_step["P"]]_vars

\* C23: in every reachable state, the first coordinate of a stored route is
\* the coordinate of every stored origin row and its last coordinate is the
\* coordinate of every stored destination row.
C23_RouteEndsAtStoredPoints ==
    \A n \in 1..Len(routes) :
        /\ \A i \in PointRows("origin") :
              route_points[i].geojson = routes[n].geojson[1]
        /\ \A i \in PointRows("destination") :
              route_points[i].geojson = routes[n].geojson[2]

\* The features a route layer shows when it shows exactly the routes rows of
\* project p.
DrawnFrom(p) ==
    {<<fromLonLat(r.geojson[1]), fromLonLat(r.geojson[2])>> :
        r \in Rows(RowsOf(p, routes))}

\* C24: when a generateRoute that reached its database write finishes, with
\* "Route Generated" or with an error, the route layer of the session shows
\* exactly the route then stored for the project.
C24_DrawnRouteIsStored ==
    [][\A s \in Sessions :
         (pc[s] = "route_write" /\ pc'[s] = "idle")
         => routeSource'[s] = DrawnFrom(projectId(s))']_vars

\* C25: in every reachable state, current_step >= 2 implies a stored AOI
\* row, current_step >= 4 implies a stored origin and a stored destination
\* row, and current_step >= 5 implies a stored routes row of the project.
C25_UnlockedStepHasItsData ==
    /\ current_step["P"] >= 2 => Len(RowsOf("P", aoi_polygons)) >= 1
    /\ current_step["P"] >= 4
       => (PointRows("origin") # {} /\ PointRows("destination") # {})
    /\ current_step["P"] >= 5 => Len(RowsOf("P", routes)) >= 1

\* C27: in every reachable state the Download button of every type whose
\* download is in flight is disabled.
C27_ButtonDisabledWhileInFlight ==
    \A s \in Sessions : \A type \in fetching[s] : buttonDisabled(s, type)

\* The whole workflow with the downloads in one session, the user drawing one
\* AOI, clicking one place for both points and generating from the first
\* stored rows; every database call that was sent returns (with its data or
\* with an error).
NextReturns ==
    \/ PageNext("s1")
    \/ drawAOI("s1", LShapeAOI) \/ aoiHandleSave("s1")
    \/ \E fail \in BOOLEAN : aoiWrite("s1", fail)
    \/ ParamNext("s1")
    \/ \E pointType \in {"origin", "destination"} : enableDrawing("s1", pointType)
    \/ drawend("s1", <<0, GridMax>>)
    \/ \E fail \in BOOLEAN : pointInsert("s1", fail)
    \/ \E fail \in BOOLEAN : generateRoute("s1", 1, 2, fail)
    \/ routeSelect("s1")
    \/ \E fail \in BOOLEAN : routeWrite("s1", fail)
    \/ DownloadNext("s1")

Returns(s) ==
    /\ WF_vars(\E fail \in BOOLEAN : aoiWrite(s, fail))
    /\ WF_vars(\E fail \in BOOLEAN : paramWrite(s, fail))
    /\ WF_vars(\E fail \in BOOLEAN : pointInsert(s, fail))
    /\ WF_vars(routeSelect(s))
    /\ WF_vars(\E fail \in BOOLEAN : routeWrite(s, fail))
    /\ \A type \in DownloadTypes :
          WF_vars(\E fail \in BOOLEAN : downloadAnswer(s, type, fail))

SpecReturns == Init /\ [][NextReturns]_vars /\ Returns("s1")

saving(s) == pc[s] \in {"aoi_write", "param_write"}
loading(s) == pc[s] = "point_insert"
generating(s) == pc[s] \in {"route_select", "route_write"}

\* C26: every started save, point save, route generation and download
\* eventually clears its in-progress flag (saving, loading, generating,
\* downloading), whether the database call succeeds or fails, provided the
\* call returns.
C26_FlagsEventuallyCleared ==
    /\ saving("s1") ~> ~saving("s1")
    /\ loading("s1") ~> ~loading("s1")
    /\ generating("s1") ~> ~generating("s1")
    /\ (downloading["s1"] # None) ~> (downloading["s1"] = None)

\* A download whose fetch failed has ended and left its button enabled.
C26_Witness ==
    /\ downloaded["s1"] # NoFile /\ downloaded["s1"] = FileOf("aoi-geojson", << >>, "P")
    /\ aoi_polygons # << >>
    /\ downloading["s1"] = None /\ fetching["s1"] = {} /\ pc["s1"] = "idle"

\* The Dashboard in one session of a project with a stored route; the
\* session also opens the project and moves through its tabs.
NextDashboard == PageNext("s1") \/ AuthNext("s1") \/ DashboardNext("s1")

SpecDashboard == InitDownload /\ [][NextDashboard]_vars

\* The same, where the select of loadProjects returns and the effect of a
\* rendered ProjectCard is run.
SpecCard ==
    /\ SpecDashboard
    /\ WF_vars(loadProjects("s1"))
    /\ WF_vars(\E fail \in BOOLEAN : loadRoutePreview("s1", fail))

\* The ProjectCard of project P is on the Dashboard of s1 with
\* project.current_step >= 4 while a route of P is stored.
CardWithRoute ==
    /\ location["s1"] = "/dashboard"
    /\ card["s1"].current_step >= 4
    /\ Len(RowsOf("P", routes)) = 1

\* C28: for a project with current_step >= 4 and a stored route, the
\* ProjectCard eventually shows the route miniature instead of the
\* placeholder (hasRoute becomes true), unless the Dashboard is left first.
C28_CardShowsMiniature ==
    CardWithRoute ~> (mapRefCurrent(card["s1"]) \/ ~CardWithRoute)

Distinct(seq) ==
    \A i, j \in 1..Len(seq) : i # j => seq[i] # seq[j]

\* C29: the comparator selection never holds a project twice and holds only
\* projects of the loaded list; a drop of an id that is already selected or
\* is not in the list leaves the selection as it was, and a removal deletes
\* the entry with that id and nothing else.
C29_ComparatorSelection ==
    [][\A s \in {"s1"} :
         /\ Distinct(comparatorProjects'[s])
         /\ \A n \in 1..Len(comparatorProjects'[s]) :
               comparatorProjects'[s][n] \in projects'[s]
         /\ \A id \in DropIds :
               /\ (handleDrop(s, id) /\ (id \in selected(s) \/ id \notin projects[s]))
                  => comparatorProjects'[s] = comparatorProjects[s]
               /\ handleRemoveFromComparator(s, id)
                  => /\ \A n \in 1..Len(comparatorProjects'[s]) :
                           comparatorProjects'[s][n] # id
                     /\ Len(comparatorProjects'[s]) =
                           Len(comparatorProjects[s])
                           - (IF id \in selected(s) THEN 1 ELSE 0)
                     /\ \A x \in selected(s) \ {id} :
                           \E n \in 1..Len(comparatorProjects'[s]) :
                               comparatorProjects'[s][n] = x]_vars

\* Both projects of the user were dropped on the comparator, R first.
C29_Witness ==
    /\ location["s1"] = "/dashboard"
    /\ comparatorProjects["s1"] = <<"R", "P">>
    /\ toast["s1"] = "Project added to comparison"

\* Step 2 in one session: the edits of the weights and of the checkboxes of
\* some rows.
NextEdits ==
    \/ loadProject("s1")
    \/ \E k \in 1..6 : selectTab("s1", k)
    \/ \E index \in WeightRows, field \in WeightFields, text \in WeightTexts :
          handleWeightChange("s1", index, field, text)
    \/ \E index \in WeightRows, enabled \in BOOLEAN :
          handleEnabledChange("s1", index, enabled)

SpecEdits == InitParameters /\ [][NextEdits]_vars

\* Between this state and the next, the table of s differs at most in the
\* field of the row at index.
OnlyFieldChanged(s, index, field) ==
    /\ Len(parameters'[s]) = Len(parameters[s])
    /\ \A i \in 1..Len(parameters[s]) :
          /\ DOMAIN parameters'[s][i] = DOMAIN parameters[s][i]
          /\ \A f \in DOMAIN parameters[s][i] :
                (i # index \/ f # field)
                => parameters'[s][i][f] = parameters[s][i][f]

\* C30: handleWeightChange(index, field, value) and
\* handleEnabledChange(index, enabled) change only the named field of the
\* row at index: the number and order of rows, every other row and every
\* other field of that row stay as they were.
C30_EditChangesOneField ==
    [][/\ \A index \in WeightRows, field \in WeightFields, text \in WeightTexts :
            handleWeightChange("s1", index, field, text)
            => /\ OnlyFieldChanged("s1", index, field)
               /\ parameters'["s1"][index][field] = parseFloat(text)
       /\ \A index \in WeightRows, enabled \in BOOLEAN :
            handleEnabledChange("s1", index, enabled)
            => /\ OnlyFieldChanged("s1", index, "enabled")
               /\ parameters'["s1"][index].enabled = enabled]_vars

\* A weight of one row and the checkbox of another were edited.
C30_Witness ==
    /\ activeStep["s1"] = 2 /\ edits = 2
    /\ \E i, j \in WeightRows :
          /\ i # j
          /\ parameters["s1"][i].enabled # defaultParameters[i].enabled
          /\ \E f \in WeightFields :
                parameters["s1"][j][f] # defaultParameters[j][f]

====
